---- MODULE Spec2Model ----
(***************************************************************************)
(* Travel aggregator: the search endpoint (app/api/search/route.ts), the   *)
(* provider base class with its process-wide cache and limiter             *)
(* (lib/providers/base.ts), the three registered adapters, the geocoder    *)
(* (lib/geocoding.ts), request validation (lib/validation.ts) and the      *)
(* aggregation pipeline (lib/aggregate: normalize, filterByDateRange,      *)
(* dedupe, rank).                                                          *)
(*                                                                         *)
(* Conventions of the model                                                *)
(*   - time is counted in minutes; an ISO timestamp is a record            *)
(*     [t |-> minutes, zone |-> zone name]; new Date(x).getTime() is x.t.  *)
(*   - a string the code inspects character by character (city, title) is  *)
(*     a sequence of one-character strings.                                *)
(*   - an optional field that is absent is absent from the record's        *)
(*     DOMAIN.                                                             *)
(*   - coordinates are in units of 1e-4 degree, popularity in hundredths,  *)
(*     scores in thousandths of a point.                                   *)
(***************************************************************************)
EXTENDS Integers, Sequences, FiniteSets, TLC

(***************************************************************************)
(* Bounds of the model.                                                    *)
(***************************************************************************)
MaxTicks == 1           \* clock advances in one behaviour
MaxRetriesArg == 4      \* largest maxRetries argument given to fetchWithRetry
BigCount == 201         \* length of the long raw item list given to the payload stage
MaxRawLen == 3          \* longest of the short raw item lists given to it
MaxItems == 2           \* longest of the item lists given to normalize, all orders and repeats

(***************************************************************************)
(* Program constants.                                                      *)
(***************************************************************************)
MAX_CONCURRENT_REQUESTS == 3    \* base.ts:5   pLimit(... || '3')
CACHE_TTL == 30                 \* base.ts:15  30 minutes
GEO_CACHE_TTL == 60             \* geocoding.ts:5  1 hour
MaxCityLen == 100               \* validation.ts:5  max(100)
MaxRangeDays == 60              \* validation.ts:19 diffDays <= 60
DAY == 1440                     \* validation.ts:18 minutes in a day
HOUR == 60                      \* route.ts:132 minutes in an hour
MaxResultItems == 200           \* route.ts:79  ranked.slice(0, 200)
DefaultMaxRetries == 3          \* base.ts:61  maxRetries: number = 3
TickMinutes == CACHE_TTL         \* the clock advances in steps of the provider cache's TTL

Min2(a, b) == IF a < b THEN a ELSE b
Max2(a, b) == IF a > b THEN a ELSE b
Abs(a) == IF a < 0 THEN 0 - a ELSE a

Has(rec, f) == f \in DOMAIN rec

\* JavaScript truthiness of an optional field: absent, 0 and "" are falsy.
TruthyNum(rec, f) == Has(rec, f) /\ rec[f] # 0
TruthyStr(rec, f) == Has(rec, f) /\ rec[f] # ""

\* { ...base, ...over }
Spread(base, over) ==
    [f \in DOMAIN base \cup DOMAIN over |-> IF f \in DOMAIN over THEN over[f] ELSE base[f]]

ISO(t, zone) == [t |-> t, zone |-> zone]
getTime(iso) == iso.t

(***************************************************************************)
(* Text: String.prototype.toLowerCase, trim and the two regular            *)
(* expressions of normalize, on sequences of characters.                   *)
(***************************************************************************)
UpperChars == <<"A","B","C","D","E","F","G","H","I","J","K","L","M",
                "N","O","P","Q","R","S","T","U","V","W","X","Y","Z">>
LowerChars == <<"a","b","c","d","e","f","g","h","i","j","k","l","m",
                "n","o","p","q","r","s","t","u","v","w","x","y","z">>
DigitChars == <<"0","1","2","3","4","5","6","7","8","9">>
SpaceChars == {" ", "\t"}

Range(s) == {s[i] : i \in DOMAIN s}

UpperSet == Range(UpperChars)
WordChars == Range(UpperChars) \cup Range(LowerChars) \cup Range(DigitChars) \cup {"_"}

ToLowerChar(c) ==
    IF c \in UpperSet
    THEN LowerChars[CHOOSE i \in DOMAIN UpperChars : UpperChars[i] = c]
    ELSE c

toLowerCase(s) == [i \in DOMAIN s |-> ToLowerChar(s[i])]

IsSpace(c) == c \in SpaceChars
IsWordChar(c) == c \in WordChars

RECURSIVE TrimStart(_)
TrimStart(s) == IF s # <<>> /\ IsSpace(Head(s)) THEN TrimStart(Tail(s)) ELSE s

RECURSIVE TrimEnd(_)
TrimEnd(s) ==
    IF s # <<>> /\ IsSpace(s[Len(s)]) THEN TrimEnd(SubSeq(s, 1, Len(s) - 1)) ELSE s

trim(s) == TrimEnd(TrimStart(s))

\* .replace(/[^\w\s]/g, '')
RECURSIVE StripNonWord(_)
StripNonWord(s) ==
    IF s = <<>> THEN <<>>
    ELSE IF IsWordChar(Head(s)) \/ IsSpace(Head(s))
         THEN <<Head(s)>> \o StripNonWord(Tail(s))
         ELSE StripNonWord(Tail(s))

\* .replace(/\s+/g, ' ')
RECURSIVE CollapseSpaces(_)
CollapseSpaces(s) ==
    IF s = <<>> THEN <<>>
    ELSE IF IsSpace(Head(s))
         THEN <<" ">> \o CollapseSpaces(TrimStart(s))
         ELSE <<Head(s)>> \o CollapseSpaces(Tail(s))

NormalizeTitle(title) == CollapseSpaces(StripNonWord(trim(toLowerCase(title))))

(***************************************************************************)
(* stringSimilarity and levenshteinDistance.                               *)
(***************************************************************************)
\* One row of the matrix: row i from row i-1 (prev), for the character c
\* of str2; cur is the part of row i already computed.
RECURSIVE LevRow(_, _, _, _)
LevRow(prev, cur, c, str1) ==
    LET j == Len(cur) IN      \* cur holds columns 0..j-1
    IF j > Len(str1) THEN cur
    ELSE LET v == IF c = str1[j]
                  THEN prev[j]
                  ELSE Min2(Min2(prev[j] + 1, cur[j] + 1), prev[j + 1] + 1)
         IN LevRow(prev, Append(cur, v), c, str1)

RECURSIVE LevRows(_, _, _, _)
LevRows(prev, i, str1, str2) ==
    IF i > Len(str2) THEN prev
    ELSE LevRows(LevRow(prev, <<i>>, str2[i], str1), i + 1, str1, str2)

levenshteinDistance(str1, str2) ==
    LET row0 == [j \in 1..(Len(str1) + 1) |-> j - 1]
    IN LevRows(row0, 1, str1, str2)[Len(str1) + 1]

\* stringSimilarity(str1, str2) > num/den, decided in integers:
\* 1 - d/maxLen > num/den  <=>  den * d < (den - num) * maxLen.
SimilarityAbove(str1, str2, num, den) ==
    LET s1 == trim(toLowerCase(str1))
        s2 == trim(toLowerCase(str2))
    IN IF s1 = s2 THEN num < den
       ELSE IF Len(s1) = 0 \/ Len(s2) = 0 THEN num < 0
       ELSE den * levenshteinDistance(s1, s2) < (den - num) * Max2(Len(s1), Len(s2))

(***************************************************************************)
(* getDistance: haversine, in metres.  For the city-scale distances of    *)
(* the model the haversine formula agrees with the equirectangular one;    *)
(* the cosine of the latitude is taken per degree band.                    *)
(***************************************************************************)
RECURSIVE ISqrtBetween(_, _, _)
ISqrtBetween(n, lo, hi) ==      \* largest r in lo..hi with r*r <= n
    IF lo >= hi THEN lo
    ELSE LET mid == (lo + hi + 1) \div 2
         IN IF mid * mid <= n THEN ISqrtBetween(n, mid, hi)
            ELSE ISqrtBetween(n, lo, mid - 1)

ISqrt(n) == ISqrtBetween(n, 0, 46340)

CosMilli(lat) ==                \* 1000 * cos(latitude), lat in 1e-4 degree
    LET deg == Abs(lat) \div 10000
    IN IF deg < 10 THEN 1000
       ELSE IF deg < 30 THEN 940
       ELSE IF deg < 45 THEN 766
       ELSE IF deg < 60 THEN 643
       ELSE 342

getDistance(lat1, lng1, lat2, lng2) ==
    LET dy == ((lat2 - lat1) * 1112) \div 100
        dx == ((((lng2 - lng1) * 1112) \div 100) * CosMilli(lat1)) \div 1000
    IN ISqrt(dy * dy + dx * dx)

(***************************************************************************)
(* normalize.                                                              *)
(***************************************************************************)
CategoryEnum == {"event", "exhibition", "attraction", "seminar", "tour"}

\* Zones luxon can resolve; estimateTimezone yields "UTC" or "UTC+n".
ValidZones == {"UTC", "UTC+1", "Europe/Rome", "America/New_York"}

NoFilter == [given |-> FALSE]
Filter(list) == [given |-> TRUE, list |-> list]

\* A filter callback that asks every tag of the item to be in the filter.
PassesCategoryFilterEvery(item, filterCategories) ==
    IF ~filterCategories.given \/ Len(filterCategories.list) = 0 THEN TRUE
    ELSE \A i \in DOMAIN item.category :
            item.category[i] \in Range(filterCategories.list)

PassesCategoryFilter(item, filterCategories) ==
    IF ~filterCategories.given \/ Len(filterCategories.list) = 0 THEN TRUE
    ELSE \E i \in DOMAIN item.category :
            item.category[i] \in Range(filterCategories.list)

\* crypto.createHash('sha256').update(`${source}:${externalId}`).digest('hex')
\* .substring(0, 16): the digest is a function of the hashed string alone.
Sha256Hex16(str) == [sha |-> str]

\* An identifier hashed over the title as well.
ItemIdWithTitle(item) == Sha256Hex16(<<item.source, item.externalId, item.title>>)

ItemId(item) == Sha256Hex16(item.source \o ":" \o item.externalId)

\* DateTime.fromISO(ts, {zone}).setZone(target).toISO() || ts: the instant is
\* kept and re-expressed in the target zone; an unresolvable zone gives an
\* invalid DateTime, whose toISO() is null, so the original string is kept.
ConvertZone(ts, itemZone, target) ==
    IF itemZone \in ValidZones /\ target \in ValidZones
    THEN ISO(ts.t, target)
    ELSE ts

NormalizeTime(item, f, timezone) ==
    IF Has(item, f) /\ TruthyStr(item, "timezone") /\ item.timezone # timezone
    THEN ConvertZone(item[f], item.timezone, timezone)
    ELSE item[f]

NormalizeItem(item, timezone, clock) ==
    LET base == [id |-> ItemId(item),
                 normalizedTitle |-> NormalizeTitle(item.title),
                 timezone |-> timezone,
                 lastUpdated |-> IF Has(item, "lastUpdated") THEN item.lastUpdated
                                 ELSE ISO(clock, "Z")]
        st == IF Has(item, "startTime")
              THEN [startTime |-> NormalizeTime(item, "startTime", timezone)]
              ELSE <<>>
        en == IF Has(item, "endTime")
              THEN [endTime |-> NormalizeTime(item, "endTime", timezone)]
              ELSE <<>>
    IN Spread(Spread(Spread(item, base), st), en)

\* Array.prototype.filter over items[lo..hi]; keep is the set of indices the
\* callback accepts.  The range is split in halves to keep the evaluation
\* shallow on long arrays.
RECURSIVE SelectRange(_, _, _, _)
SelectRange(items, keep, lo, hi) ==
    IF lo > hi THEN <<>>
    ELSE IF lo = hi THEN (IF lo \in keep THEN <<items[lo]>> ELSE <<>>)
    ELSE LET mid == (lo + hi) \div 2
         IN SelectRange(items, keep, lo, mid) \o SelectRange(items, keep, mid + 1, hi)

SelectItems(items, keep) == SelectRange(items, keep, 1, Len(items))

normalize(items, timezone, filterCategories, clock) ==
    LET kept == SelectItems(items,
                    {i \in DOMAIN items : PassesCategoryFilter(items[i], filterCategories)})
    IN [i \in DOMAIN kept |-> NormalizeItem(kept[i], timezone, clock)]

(***************************************************************************)
(* filterByDateRange.                                                      *)
(***************************************************************************)
\* A callback that asks a timed item to start inside the window.
InDateRangeStartInside(item, startISO, endISO) ==
    IF ~Has(item, "startTime") /\ "attraction" \in Range(item.category) THEN TRUE
    ELSE IF Has(item, "startTime")
         THEN getTime(item.startTime) <= getTime(endISO)
              /\ getTime(item.startTime) >= getTime(startISO)
         ELSE FALSE

InDateRange(item, startISO, endISO) ==
    LET startDate == getTime(startISO)
        endDate == getTime(endISO)
    IN IF ~Has(item, "startTime") /\ "attraction" \in Range(item.category) THEN TRUE
       ELSE IF Has(item, "startTime")
            THEN LET itemStart == getTime(item.startTime)
                     itemEnd == IF Has(item, "endTime") THEN getTime(item.endTime)
                                ELSE itemStart
                 IN itemStart <= endDate /\ itemEnd >= startDate
            ELSE FALSE

filterByDateRange(items, startISO, endISO) ==
    SelectItems(items, {i \in DOMAIN items : InDateRange(items[i], startISO, endISO)})

(***************************************************************************)
(* dedupe.                                                                 *)
(***************************************************************************)
TimeWindowMinutes == 30         \* 30 * 60 * 1000 ms
LocationWindowMetres == 200

timeSimilar(item, uniqueItem) ==
    /\ Has(item, "startTime") /\ Has(uniqueItem, "startTime")
    /\ Abs(getTime(item.startTime) - getTime(uniqueItem.startTime)) < TimeWindowMinutes

locationSimilar(item, uniqueItem) ==
    /\ TruthyNum(item, "lat") /\ TruthyNum(item, "lng")
    /\ TruthyNum(uniqueItem, "lat") /\ TruthyNum(uniqueItem, "lng")
    /\ getDistance(item.lat, item.lng, uniqueItem.lat, uniqueItem.lng) < LocationWindowMetres

IsDuplicateOf(item, uniqueItem) ==
    \/ /\ timeSimilar(item, uniqueItem)
       /\ SimilarityAbove(item.normalizedTitle, uniqueItem.normalizedTitle, 9, 10)
    \/ /\ timeSimilar(item, uniqueItem)
       /\ locationSimilar(item, uniqueItem)
       /\ SimilarityAbove(item.normalizedTitle, uniqueItem.normalizedTitle, 8, 10)

\* A test that also takes the incoming item when the representative has no
\* popularity, whether or not the incoming item has one.
HasMoreInformationUnrated(item, uniqueItem) ==
    \/ ~TruthyStr(uniqueItem, "description") /\ TruthyStr(item, "description")
    \/ ~TruthyStr(uniqueItem, "imageUrl") /\ TruthyStr(item, "imageUrl")
    \/ ~TruthyNum(uniqueItem, "popularity")
    \/ TruthyNum(item, "popularity") /\ item.popularity > uniqueItem.popularity

HasMoreInformation(item, uniqueItem) ==
    \/ ~TruthyStr(uniqueItem, "description") /\ TruthyStr(item, "description")
    \/ ~TruthyStr(uniqueItem, "imageUrl") /\ TruthyStr(item, "imageUrl")
    \/ /\ TruthyNum(item, "popularity")
       /\ (~TruthyNum(uniqueItem, "popularity") \/ item.popularity > uniqueItem.popularity)

\* An inner loop that matches on the title alone.
FirstMatchByTitle(item, uniqueItems) ==
    LET hits == {k \in DOMAIN uniqueItems :
                    SimilarityAbove(item.normalizedTitle, uniqueItems[k].normalizedTitle, 9, 10)}
    IN IF hits = {} THEN 0 ELSE CHOOSE k \in hits : \A j \in hits : k <= j

\* The inner loop for one incoming item: the first representative matching it.
FirstMatch(item, uniqueItems) ==
    LET hits == {k \in DOMAIN uniqueItems : IsDuplicateOf(item, uniqueItems[k])}
    IN IF hits = {} THEN 0 ELSE CHOOSE k \in hits : \A j \in hits : k <= j

\* A merge step that puts the incoming item, identifier included, in the
\* place of the representative.
DedupeStepTakesItem(uniqueItems, item) ==
    LET k == FirstMatch(item, uniqueItems)
    IN IF k = 0 THEN Append(uniqueItems, item)
       ELSE IF HasMoreInformation(item, uniqueItems[k])
            THEN [uniqueItems EXCEPT ![k] = item]
            ELSE uniqueItems

DedupeStep(uniqueItems, item) ==
    LET k == FirstMatch(item, uniqueItems)
    IN IF k = 0 THEN Append(uniqueItems, item)
       ELSE IF HasMoreInformation(item, uniqueItems[k])
            THEN [uniqueItems EXCEPT ![k] = Spread(item, [id |-> uniqueItems[k].id])]
            ELSE uniqueItems

\* The outer loop over items[lo..hi], starting from uniqueItems: the first
\* half of the range, then the second (the test on Len has the first half
\* computed before the second begins).
RECURSIVE DedupeRange(_, _, _, _)
DedupeRange(uniqueItems, items, lo, hi) ==
    IF lo > hi THEN uniqueItems
    ELSE IF lo = hi THEN DedupeStep(uniqueItems, items[lo])
    ELSE LET mid == (lo + hi) \div 2
             first == DedupeRange(uniqueItems, items, lo, mid)
         IN IF Len(first) >= 0 THEN DedupeRange(first, items, mid + 1, hi) ELSE first

dedupe(items) == DedupeRange(<<>>, items, 1, Len(items))

(***************************************************************************)
(* rank.  A score is [k |-> "pts", v |-> thousandths of a point] for the   *)
(* additive scores (0 included) or [k |-> "recip", d |-> x] for the        *)
(* scores of the form 1 / (1 + x): x is the time until start in minutes    *)
(* (soonest), the distance in metres (closest) or the minimum price        *)
(* (price).  For soonest the code's denominator is 1 + 60000 * x, which    *)
(* has the sign and the order of x: x >= 0 gives a score in (0, 1], x < 0  *)
(* a negative score.  The call is synchronous: every Date.now() of one    *)
(* call reads the same time, clock.                                        *)
(***************************************************************************)
Pts(v) == [k |-> "pts", v |-> v]
Recip(d) == [k |-> "recip", d |-> d]

ScoreSign(s) ==
    IF s.k = "pts" THEN (IF s.v > 0 THEN 1 ELSE IF s.v < 0 THEN 0 - 1 ELSE 0)
    ELSE IF s.d >= 0 THEN 1 ELSE 0 - 1

\* a > b as numbers
ScoreGreater(a, b) ==
    IF ScoreSign(a) # ScoreSign(b) THEN ScoreSign(a) > ScoreSign(b)
    ELSE IF a.k = "pts" /\ b.k = "pts" THEN a.v > b.v
    ELSE IF a.k = "recip" /\ b.k = "recip" THEN a.d < b.d
    \* 1/(1+d) against a positive number of points: only 1 = 1/(1+0) occurs
    ELSE IF a.k = "recip" THEN 1000 > b.v * (1 + a.d)
    ELSE a.v * (1 + b.d) > 1000

CategoryWeightTenths(cat) ==
    IF cat = "event" THEN 10
    ELSE IF cat = "exhibition" THEN 12
    ELSE IF cat = "attraction" THEN 11
    ELSE IF cat = "seminar" THEN 13
    ELSE IF cat = "tour" THEN 12
    ELSE 10

\* 1000 * log10(n) for n >= 1, from the number of digits and the leading digit.
Log10LeadingMilli == <<0, 301, 477, 602, 699, 778, 845, 903, 954>>

RECURSIVE Log10Milli(_)
Log10Milli(n) == IF n < 10 THEN Log10LeadingMilli[Max2(n, 1)] ELSE 1000 + Log10Milli(n \div 10)

SumSeq(s) ==
    LET F[i \in 0..Len(s)] == IF i = 0 THEN 0 ELSE F[i - 1] + s[i]
    IN F[Len(s)]

\* A popularity factor that is a flat bonus for a rated item.
PopularityPointsFlat(item) ==
    IF TruthyNum(item, "popularity") THEN 30000 ELSE 0

PopularityPoints(item) ==
    IF TruthyNum(item, "popularity") THEN item.popularity * 300 ELSE 0

AttendeePoints(item) ==
    IF TruthyNum(item, "attendeeCount")
    THEN Min2(10000, Log10Milli(item.attendeeCount + 1) * 2)
    ELSE 0

RecencyPoints(item, clock) ==
    IF Has(item, "lastUpdated")
    THEN Max2(0, 20000 - ((clock - getTime(item.lastUpdated)) * 1000) \div DAY)
    ELSE 0

HasCenter(center) == center # <<>>

DistancePoints(item, center) ==
    IF HasCenter(center) /\ TruthyNum(item, "lat") /\ TruthyNum(item, "lng")
    THEN Max2(0, 20000 - getDistance(center[1], center[2], item.lat, item.lng))
    ELSE 0

CompletenessPoints(item) ==
      (IF TruthyStr(item, "description") THEN 3000 ELSE 0)
    + (IF TruthyStr(item, "imageUrl") THEN 3000 ELSE 0)
    + (IF TruthyStr(item, "venueName") THEN 3000 ELSE 0)
    + (IF TruthyStr(item, "address") THEN 3000 ELSE 0)
    + (IF Has(item, "priceMin") THEN 3000 ELSE 0)

CategoryPoints(item) ==
    Min2(10000, SumSeq([i \in DOMAIN item.category |->
                            CategoryWeightTenths(item.category[i])]) * 200)

UrgencyPoints(item, clock) ==
    IF Has(item, "startTime")
    THEN LET minutesUntil == getTime(item.startTime) - clock
         IN IF minutesUntil < DAY THEN 5000
            ELSE IF minutesUntil < 3 * DAY THEN 3000
            ELSE IF minutesUntil < 7 * DAY THEN 1000
            ELSE 0
    ELSE 0

RecommendedScore(item, center, clock) ==
    Pts(PopularityPoints(item) + AttendeePoints(item) + RecencyPoints(item, clock)
        + DistancePoints(item, center) + CompletenessPoints(item)
        + CategoryPoints(item) + UrgencyPoints(item, clock))

ItemScore(item, center, sortBy, clock) ==
    IF sortBy = "soonest"
    THEN IF Has(item, "startTime") THEN Recip(getTime(item.startTime) - clock) ELSE Pts(0)
    ELSE IF sortBy = "closest" /\ HasCenter(center)
    THEN IF TruthyNum(item, "lat") /\ TruthyNum(item, "lng")
         THEN Recip(getDistance(center[1], center[2], item.lat, item.lng))
         ELSE Pts(0)
    ELSE IF sortBy = "price"
    THEN IF Has(item, "priceMin") THEN Recip(item.priceMin) ELSE Recip(0)
    ELSE RecommendedScore(item, center, clock)

\* A sort with the comparator's operands exchanged: ascending.
InsertByScoreAscending(sorted, item) ==
    LET after == {k \in DOMAIN sorted : ScoreGreater(sorted[k].score, item.score)}
        pos == IF after = {} THEN Len(sorted) + 1 ELSE CHOOSE k \in after : \A j \in after : k <= j
    IN SubSeq(sorted, 1, pos - 1) \o <<item>> \o SubSeq(sorted, pos, Len(sorted))

\* Array.prototype.sort with (a, b) => b.score - a.score: stable, descending.
InsertByScore(sorted, item) ==
    LET after == {k \in DOMAIN sorted : ScoreGreater(item.score, sorted[k].score)}
        pos == IF after = {} THEN Len(sorted) + 1 ELSE CHOOSE k \in after : \A j \in after : k <= j
    IN SubSeq(sorted, 1, pos - 1) \o <<item>> \o SubSeq(sorted, pos, Len(sorted))

\* items[lo..hi] inserted one by one, in order, into sorted (the test on Len
\* has the first half inserted before the second begins).
RECURSIVE SortRange(_, _, _, _)
SortRange(sorted, items, lo, hi) ==
    IF lo > hi THEN sorted
    ELSE IF lo = hi THEN InsertByScore(sorted, items[lo])
    ELSE LET mid == (lo + hi) \div 2
             first == SortRange(sorted, items, lo, mid)
         IN IF Len(first) >= 0 THEN SortRange(first, items, mid + 1, hi) ELSE first

SortByScore(items) == SortRange(<<>>, items, 1, Len(items))

rank(items, center, sortBy, clock) ==
    SortByScore([i \in DOMAIN items |->
        Spread(items[i], [score |-> ItemScore(items[i], center, sortBy, clock)])])

(***************************************************************************)
(* Request validation: searchParamsSchema.  A date parameter is either a   *)
(* well-formed ISO-8601 datetime denoting a time, or other text.           *)
(***************************************************************************)
DateParam(t) == [wf |-> TRUE, t |-> t, zone |-> "Z"]
BadDate == [wf |-> FALSE]

CityIssues(params) ==
    IF Len(params.city) < 1 THEN {"city: too_small"}
    ELSE IF Len(params.city) > MaxCityLen THEN {"city: too_big"}
    ELSE {}

DateIssues(params) ==
    (IF params.start.wf THEN {} ELSE {"start: invalid_string"})
    \cup (IF params.end.wf THEN {} ELSE {"end: invalid_string"})

CategoryIssues(params) ==
    IF params.categories.given
       /\ \E i \in DOMAIN params.categories.list : params.categories.list[i] \notin CategoryEnum
    THEN {"categories: invalid_enum_value"}
    ELSE {}

\* Refinements whose comparison of end and start is not strict.
RefineIssuesNonStrict(params) ==
    (IF params.end.t >= params.start.t THEN {} ELSE {"End date must be after start date"})
    \cup (IF params.end.t - params.start.t <= MaxRangeDays * DAY THEN {}
          ELSE {"Date range cannot exceed 60 days"})

\* The two refinements run once the object itself has parsed.
RefineIssues(params) ==
    (IF params.end.t > params.start.t THEN {} ELSE {"End date must be after start date"})
    \cup (IF params.end.t - params.start.t <= MaxRangeDays * DAY THEN {}
          ELSE {"Date range cannot exceed 60 days"})

ValidationIssues(params) ==
    LET shape == CityIssues(params) \cup DateIssues(params) \cup CategoryIssues(params)
    IN IF shape # {} THEN shape ELSE RefineIssues(params)

(***************************************************************************)
(* The outside world: the cities the geocoders know, and what the          *)
(* provider APIs return.                                                   *)
(***************************************************************************)
Rome == <<"R","o","m","e">>
Oz == <<"O","z">>
LongCity == [i \in 1..(MaxCityLen + 1) |-> "x"]

KnownCities == {Rome}

\* geocodeWithNominatim / geocodeWithGooglePlaces on a city they know.
GeocodingResult(city, via) ==
    [lat |-> 419028, lng |-> 124964,
     bbox |-> <<123000, 417000, 127000, 421000>>,
     timezone |-> IF via = "nominatim" THEN "UTC+1" ELSE "Europe/Rome",
     displayName |-> city, city |-> city, country |-> "Italy"]

Params(city, start, end, categories) ==
    [city |-> city, start |-> start, end |-> end, categories |-> categories]

ValidParamChoices ==
    { Params(Rome, DateParam(0), DateParam(MaxRangeDays * DAY), NoFilter),
      Params(Oz, DateParam(0), DateParam(DAY), NoFilter) }

InvalidParamChoices ==
    { Params(<<>>, DateParam(0), DateParam(DAY), NoFilter),
      Params(LongCity, DateParam(0), DateParam(DAY), NoFilter),
      Params(Rome, BadDate, DateParam(DAY), NoFilter),
      Params(Rome, DateParam(0), BadDate, NoFilter),
      Params(Rome, DateParam(DAY), DateParam(DAY), NoFilter),
      Params(Rome, DateParam(DAY), DateParam(0), NoFilter),
      Params(Rome, DateParam(0), DateParam(MaxRangeDays * DAY + 1), NoFilter),
      Params(Rome, DateParam(0), DateParam(DAY), Filter(<<"event", "concert">>)) }

ParamChoices == ValidParamChoices \cup InvalidParamChoices

\* Items as the adapters build them from the API responses.
EventJazz ==
    [externalId |-> "e1", source |-> "eventbrite", title |-> <<"J","a","z","z"," ","N","i","g","h","t">>,
     category |-> <<"event">>, startTime |-> ISO(600, "Z"), endTime |-> ISO(720, "Z"),
     timezone |-> "Europe/Rome", venueName |-> "Blue Room", city |-> Rome,
     lat |-> 419000, lng |-> 125000, url |-> "https://eventbrite/e1",
     tags |-> <<>>, isFamilyFriendly |-> FALSE, isIndoor |-> FALSE, language |-> "en",
     popularity |-> 20]

EventTalk ==
    [externalId |-> "e2", source |-> "eventbrite", title |-> <<"T","e","c","h"," ","T","a","l","k">>,
     description |-> "a talk", category |-> <<"event", "seminar">>,
     startTime |-> ISO(61 * DAY + 540, "Z"), endTime |-> ISO(61 * DAY + 600, "Z"),
     timezone |-> "Europe/Rome", city |-> Rome, priceMin |-> 0,
     url |-> "https://eventbrite/e2", tags |-> <<"seminar">>,
     isFamilyFriendly |-> FALSE, isIndoor |-> FALSE, language |-> "en"]

MeetupJazz ==
    [externalId |-> "m1", source |-> "meetup", title |-> <<"j","a","z","z"," ","n","i","g","h","t","!","!">>,
     description |-> "live music", category |-> <<"event">>,
     startTime |-> ISO(610, "Z"), timezone |-> "Europe/Rome", venueName |-> "Blue Room",
     city |-> Rome, lat |-> 419005, lng |-> 125004, priceMin |-> 0, currency |-> "USD",
     url |-> "https://meetup/m1", tags |-> <<>>, isFamilyFriendly |-> TRUE,
     isIndoor |-> TRUE, language |-> "en", attendeeCount |-> 45, popularity |-> 80]

RECURSIVE DigitsOf(_)
DigitsOf(n) ==
    IF n < 10 THEN <<DigitChars[n + 1]>> ELSE Append(DigitsOf(n \div 10), DigitChars[(n % 10) + 1])

Attraction(n) ==
    [externalId |-> "x" \o ToString(n), source |-> "opentripmap",
     title |-> <<"P", "l", "a", "c", "e", " ">> \o DigitsOf(n),
     category |-> <<"attraction">>, venueName |-> "P" \o ToString(n), city |-> Rome,
     lat |-> 419000 + n, lng |-> 124900, url |-> "https://osm/" \o ToString(n),
     tags |-> <<>>, isFamilyFriendly |-> TRUE, isIndoor |-> FALSE, popularity |-> 70]

EventbritePayloads == { <<EventJazz, EventTalk>>, <<EventTalk>> }
OpenTripMapPayloads == { <<Attraction(1)>> }
MeetupPayloads == { <<MeetupJazz>> }

ApiPayloads(p) ==
    IF p = "Eventbrite" THEN EventbritePayloads
    ELSE IF p = "OpenTripMap" THEN OpenTripMapPayloads
    ELSE MeetupPayloads

(***************************************************************************)
(* MeetupProvider.getMockMeetupData and the route's getMockItems.          *)
(***************************************************************************)
MockMeetupEvents(params) ==
    << [externalId |-> "mock-meetup-1", source |-> "meetup",
        title |-> params.city \o <<" ","J","a","v","a","S","c","r","i","p","t"," ","D","e","v","e","l","o","p","e","r","s"," ","M","e","e","t","u","p">>,
        description |-> "Monthly meetup", category |-> <<"event", "seminar">>,
        startTime |-> ISO(params.startISO.t, "Z"),
        endTime |-> ISO(params.startISO.t + 2 * HOUR, "Z"),
        venueName |-> "Tech Hub", city |-> params.city, priceMin |-> 0, priceMax |-> 0,
        url |-> "https://www.meetup.com/", tags |-> <<"tech">>,
        isFamilyFriendly |-> FALSE, isIndoor |-> TRUE, language |-> "en",
        attendeeCount |-> 45, popularity |-> 70],
       [externalId |-> "mock-meetup-2", source |-> "meetup",
        title |-> params.city \o <<" ","P","h","o","t","o","g","r","a","p","h","y"," ","W","a","l","k">>,
        description |-> "Join us", category |-> <<"event", "tour">>,
        startTime |-> ISO(params.startISO.t + 24 * HOUR, "Z"),
        endTime |-> ISO(params.startISO.t + 27 * HOUR, "Z"),
        venueName |-> "City Center", city |-> params.city, priceMin |-> 10, priceMax |-> 10,
        currency |-> "USD", url |-> "https://www.meetup.com/", tags |-> <<"outdoor">>,
        isFamilyFriendly |-> TRUE, isIndoor |-> FALSE, language |-> "en",
        attendeeCount |-> 20, popularity |-> 50],
       [externalId |-> "mock-meetup-3", source |-> "meetup",
        title |-> params.city \o <<" ","E","n","t","r","e","p","r","e","n","e","u","r","s"," ","N","e","t","w","o","r","k">>,
        description |-> "Network", category |-> <<"event", "seminar">>,
        startTime |-> ISO(params.startISO.t + 48 * HOUR, "Z"),
        endTime |-> ISO(params.startISO.t + 50 * HOUR, "Z"),
        venueName |-> "Business Center", city |-> params.city, priceMin |-> 15,
        priceMax |-> 15, currency |-> "USD", url |-> "https://www.meetup.com/",
        tags |-> <<"business">>, isFamilyFriendly |-> FALSE, isIndoor |-> TRUE,
        language |-> "en", attendeeCount |-> 60, popularity |-> 80] >>

getMockMeetupData(params) ==
    LET mockEvents == MockMeetupEvents(params)
        startTime == getTime(params.startISO)
        endTime == getTime(params.endISO)
    IN SelectItems(mockEvents,
          {i \in DOMAIN mockEvents :
              /\ getTime(mockEvents[i].startTime) >= startTime
              /\ getTime(mockEvents[i].startTime) <= endTime})

getMockItems(city, startISO) ==
    << [externalId |-> "mock-1", source |-> "mock", title |-> city \o <<" ","C","i","t","y"," ","M","u","s","e","u","m">>,
        description |-> "Explore", category |-> <<"attraction", "exhibition">>,
        venueName |-> "City Museum", city |-> city, priceMin |-> 15, priceMax |-> 25,
        currency |-> "USD", url |-> "https://example.com/museum", tags |-> <<"museum">>,
        isFamilyFriendly |-> TRUE, isIndoor |-> TRUE, popularity |-> 80],
       [externalId |-> "mock-2", source |-> "mock", title |-> city \o <<" ","F","o","o","d"," ","F","e","s","t","i","v","a","l">>,
        description |-> "Annual food festival", category |-> <<"event">>,
        startTime |-> startISO, endTime |-> ISO(getTime(startISO) + 8 * HOUR, "Z"),
        venueName |-> "City Park", city |-> city, priceMin |-> 0, priceMax |-> 0,
        currency |-> "USD", url |-> "https://example.com/food-festival",
        tags |-> <<"food">>, isFamilyFriendly |-> TRUE, isIndoor |-> FALSE,
        popularity |-> 90],
       [externalId |-> "mock-3", source |-> "mock", title |-> city \o <<" ","W","a","l","k","i","n","g"," ","T","o","u","r">>,
        description |-> "Guided walking tour", category |-> <<"tour">>,
        startTime |-> ISO(getTime(startISO) + 24 * HOUR, "Z"),
        endTime |-> ISO(getTime(startISO) + 26 * HOUR, "Z"),
        venueName |-> "Tourist Information Center", city |-> city, priceMin |-> 20,
        priceMax |-> 20, currency |-> "USD", url |-> "https://example.com/walking-tour",
        tags |-> <<"tour">>, isFamilyFriendly |-> TRUE, isIndoor |-> FALSE,
        popularity |-> 70],
       [externalId |-> "mock-4", source |-> "mock", title |-> <<"T","e","c","h"," ","C","o","n","f","e","r","e","n","c","e"," ","2","0","2","5">>,
        description |-> "Annual technology conference", category |-> <<"seminar", "event">>,
        startTime |-> ISO(getTime(startISO) + 48 * HOUR, "Z"),
        endTime |-> ISO(getTime(startISO) + 56 * HOUR, "Z"),
        venueName |-> "Convention Center", city |-> city, priceMin |-> 150,
        priceMax |-> 300, currency |-> "USD", url |-> "https://example.com/tech-conf",
        tags |-> <<"technology">>, isFamilyFriendly |-> FALSE, isIndoor |-> TRUE,
        popularity |-> 85],
       [externalId |-> "mock-5", source |-> "mock", title |-> <<"M","o","d","e","r","n"," ","A","r","t"," ","E","x","h","i","b","i","t","i","o","n">>,
        description |-> "Contemporary art exhibition", category |-> <<"exhibition">>,
        venueName |-> "Art Gallery", city |-> city, priceMin |-> 12, priceMax |-> 12,
        currency |-> "USD", url |-> "https://example.com/art-exhibition",
        tags |-> <<"art">>, isFamilyFriendly |-> TRUE, isIndoor |-> TRUE,
        popularity |-> 60] >>

(***************************************************************************)
(* The provider registry (lib/providers/index.ts) and the adapters.        *)
(***************************************************************************)
providerClasses == <<"Eventbrite", "OpenTripMap", "Meetup">>
ProviderNames == Range(providerClasses)

\* new ProviderClass() for each class, then .filter(provider => provider.isEnabled):
\* a provider is enabled iff its API key is configured.
EnabledProviders(keys) ==
    SelectItems(providerClasses, {i \in DOMAIN providerClasses : providerClasses[i] \in keys})

ProviderParams(validated, g) ==
    [city |-> validated.city, bbox |-> g.bbox,
     startISO |-> validated.start, endISO |-> validated.end]

CacheKey(p, params) ==
    IF p = "Eventbrite" THEN <<"eventbrite", params.city, params.startISO, params.endISO>>
    ELSE IF p = "OpenTripMap" THEN <<"opentripmap", params.city, params.bbox>>
    ELSE <<"meetup", params.city, params.startISO, params.endISO>>

\* What the network gives one fetcher run, fetchWithRetry included: a
\* response with a body, a response that is not ok, or a thrown error
\* (transport failure, timeout, 5xx on the last attempt).
Returned(items) == [ok |-> TRUE, items |-> items]
Thrown == [ok |-> FALSE]

NetOk(items) == [kind |-> "ok", items |-> items]
NetFailures == {[kind |-> "notok"], [kind |-> "throw"]}
NetOutcomes(p) == {NetOk(items) : items \in ApiPayloads(p)} \cup NetFailures

\* The fetcher closures the three adapters pass to fetchWithCache: each
\* catches every error inside the closure.
EventbriteFetcher(net, params) ==
    IF net.kind = "ok" THEN Returned(net.items) ELSE Returned(<<>>)

MeetupFetcher(net, params) ==
    IF net.kind = "ok" THEN Returned(net.items) ELSE Returned(getMockMeetupData(params))

OpenTripMapFetcher(net, params) ==
    IF net.kind = "ok" THEN Returned(net.items) ELSE Returned(<<>>)

\* A fetcher written to the Provider contract: adapter-level failure is thrown.
ContractFetcher(net, params) ==
    IF net.kind = "ok" THEN Returned(net.items) ELSE Thrown

Fetcher(kind, p, net, params) ==
    IF kind = "contract" THEN ContractFetcher(net, params)
    ELSE IF p = "Eventbrite" THEN EventbriteFetcher(net, params)
    ELSE IF p = "OpenTripMap" THEN OpenTripMapFetcher(net, params)
    ELSE MeetupFetcher(net, params)

(***************************************************************************)
(* The two process-wide caches.  A cache is a function from the keys it    *)
(* holds to entries.                                                       *)
(***************************************************************************)
EmptyCache == <<>>
NoEntry == [has |-> FALSE]

CacheGet(cache, key) ==
    IF key \in DOMAIN cache THEN Spread(cache[key], [has |-> TRUE]) ELSE NoEntry

CacheSet(cache, key, entry) ==
    [k \in DOMAIN cache \cup {key} |-> IF k = key THEN entry ELSE cache[k]]

\* A freshness test that still accepts an entry whose age equals the TTL.
IsFreshInclusive(cached, clock, ttl) == cached.has /\ clock - cached.timestamp <= ttl

\* cached && Date.now() - cached.timestamp < CACHE_TTL
IsFresh(cached, clock, ttl) == cached.has /\ clock - cached.timestamp < ttl

(***************************************************************************)
(* State.                                                                  *)
(***************************************************************************)
VARIABLES
    now,            \* Date.now(), minutes
    apiKeys,        \* the providers whose API key is set in the environment
    googleKey,      \* GOOGLE_PLACES_API_KEY is set
    fetcherKind,    \* "adapter": the registered adapters; "contract": fetchers that throw
    providerCache,  \* base.ts providerCache
    geocodeCache,   \* geocoding.ts geocodeCache
    activeCount,    \* p-limit: fetchers running
    queue,          \* p-limit: fetchers waiting, <<handler, provider>>
    pc,             \* per handler: "idle", "nominatim", "google", "fetching"
    req,            \* per handler: the validated parameters
    geo,            \* per handler: the GeocodingResult
    tried,          \* per handler: what the geocoders that failed answered
    calls,          \* per handler and provider: the fetchItems call
    sent,           \* the response sent by the step that led to this state
    workers,        \* the handlers the server runs requests on
    traffic,        \* the parameter sets the clients send
    retry,          \* the frame of a fetchWithRetry call
    reply,          \* the locals of GET from the raw items to the response body
    stage           \* a call of a function of lib/aggregate.ts: arguments and result

mainVars == <<now, apiKeys, googleKey, fetcherKind, providerCache, geocodeCache,
              activeCount, queue, pc, req, geo, tried, calls, sent, workers, traffic,
              retry, reply, stage>>

Handlers == {"h1", "h2"}

NoCall == [st |-> "none"]
NoCalls == [p \in ProviderNames |-> NoCall]
NoRequest == [city |-> <<>>]
NoGeo == [city |-> <<>>]
NoResponse == [status |-> 0]
NoRetry == [pc |-> "idle"]
NoReply == [stage |-> "idle"]
NoStage == [fn |-> "none"]

IsSettled(call) == call.st \in {"fulfilled", "rejected"}

(***************************************************************************)
(* p-limit.                                                                *)
(***************************************************************************)
\* A limiter that lets one fetcher too many through.
LimiterHasCapacityOffByOne(active) == active <= MAX_CONCURRENT_REQUESTS

LimiterHasCapacity(active) == active < MAX_CONCURRENT_REQUESTS

\* Start queued fetchers, oldest first, while there is capacity.
RECURSIVE StartQueued(_, _, _)
StartQueued(c, q, active) ==
    IF LimiterHasCapacity(active) /\ q # <<>>
    THEN StartQueued([c EXCEPT ![q[1][1]][q[1][2]].st = "running"], Tail(q), active + 1)
    ELSE [calls |-> c, queue |-> q, active |-> active]

(***************************************************************************)
(* BaseProvider.fetchWithCache.                                            *)
(***************************************************************************)
\* Up to the first await: the cache check, then limit(fetcher).
FetchWithCacheBegin(key, cache, clock) ==
    LET cached == CacheGet(cache, key)
    IN IF IsFresh(cached, clock, CACHE_TTL)
       THEN [st |-> "fulfilled", key |-> key, cached |-> cached, value |-> cached.data,
             net |-> "none"]
       ELSE [st |-> "queued", key |-> key, cached |-> cached]

\* After the await: the fetcher has returned or thrown.
FetchWithCacheSettle(call, result, netKind) ==
    IF result.ok
    THEN [st |-> "fulfilled", key |-> call.key, cached |-> call.cached,
          value |-> result.items, net |-> netKind]
    ELSE IF call.cached.has
    THEN [st |-> "fulfilled", key |-> call.key, cached |-> call.cached,
          value |-> call.cached.data, net |-> netKind]
    ELSE [st |-> "rejected", key |-> call.key, cached |-> call.cached, net |-> netKind]

\* A cache write that adds the result to the data the entry already holds.
FetchWithCacheStoreAppends(cache, call, result, clock) ==
    IF result.ok
    THEN CacheSet(cache, call.key,
                  [key |-> call.key,
                   data |-> (IF call.key \in DOMAIN cache THEN cache[call.key].data ELSE <<>>)
                               \o result.items,
                   timestamp |-> clock])
    ELSE cache

FetchWithCacheStore(cache, call, result, clock) ==
    IF result.ok
    THEN CacheSet(cache, call.key, [key |-> call.key, data |-> result.items, timestamp |-> clock])
    ELSE cache

(***************************************************************************)
(* The search endpoint: GET of app/api/search/route.ts.                    *)
(***************************************************************************)
\* The PromiseSettledResult of a settled call, with the network outcome behind it.
SettledResult(call) ==
    IF call.st = "fulfilled"
    THEN [st |-> "fulfilled", value |-> call.value, net |-> call.net]
    ELSE IF call.st = "rejected" THEN [st |-> "rejected", net |-> call.net]
    ELSE [st |-> call.st]

\* A collection that gives up at the first rejected call.
CollectItemsUntilRejected(settled, provs) ==
    LET F[i \in 0..Len(provs)] ==
            IF i = 0 THEN [items |-> <<>>, open |-> TRUE]
            ELSE IF F[i - 1].open /\ settled[provs[i]].st = "fulfilled"
                 THEN [items |-> F[i - 1].items \o settled[provs[i]].value, open |-> TRUE]
                 ELSE [items |-> F[i - 1].items, open |-> FALSE]
    IN F[Len(provs)].items

\* settled.flatMap(...): the fulfilled values, in the order of `providers`.
CollectItems(settled, provs) ==
    LET F[i \in 0..Len(provs)] ==
            IF i = 0 THEN <<>>
            ELSE IF settled[provs[i]].st = "fulfilled"
                 THEN F[i - 1] \o settled[provs[i]].value
                 ELSE F[i - 1]
    IN F[Len(provs)]

\* A fallback that adds the placeholder items whatever the providers gave.
WithMockAlways(allItems, validated) ==
    allItems \o getMockItems(validated.city, validated.start)

\* if (allItems.length === 0) allItems.push(...getMockItems(...))
WithMockFallback(allItems, validated) ==
    IF Len(allItems) = 0 THEN getMockItems(validated.city, validated.start) ELSE allItems

Pipeline(allItems, g, validated, clock) ==
    LET normalized == normalize(allItems, g.timezone, validated.categories, clock)
        filtered == filterByDateRange(normalized, validated.start, validated.end)
        unique == dedupe(filtered)
    IN rank(unique, <<g.lat, g.lng>>, "recommended", clock)

\* A payload whose count is taken after the cut to the first items.
ResultPayloadCountOfPage(ranked, g, validated, provs) ==
    [city |-> g.city, country |-> g.country, displayName |-> g.displayName,
     timezone |-> g.timezone, center |-> <<g.lat, g.lng>>, bbox |-> g.bbox,
     startISO |-> validated.start, endISO |-> validated.end,
     count |-> Min2(Len(ranked), MaxResultItems),
     providers |-> provs,
     items |-> SubSeq(ranked, 1, Min2(Len(ranked), MaxResultItems))]

ResultPayload(ranked, g, validated, provs) ==
    [city |-> g.city, country |-> g.country, displayName |-> g.displayName,
     timezone |-> g.timezone, center |-> <<g.lat, g.lng>>, bbox |-> g.bbox,
     startISO |-> validated.start, endISO |-> validated.end,
     count |-> Len(ranked),
     providers |-> provs,
     items |-> SubSeq(ranked, 1, Min2(Len(ranked), MaxResultItems))]

\* Lines 43-58: from the settled provider calls to the pipeline's input.  The
\* record holds the handler's locals at that point, the time, and the call
\* whose settling let Promise.allSettled resolve ("none" when every call was
\* answered from the cache).
SearchResponse(h, validated, g, cs, provs, last, clock) ==
    [status |-> 200, handler |-> h, req |-> validated, geo |-> g, providers |-> provs,
     last |-> last,
     settled |-> [p \in Range(provs) |-> SettledResult(cs[p])],
     allItems |-> WithMockFallback(CollectItems(cs, provs), validated),
     at |-> clock]

\* Lines 60-80: the JSON body of a successful response.
ResponseBody(r) ==
    ResultPayload(Pipeline(r.allItems, r.geo, r.req, r.at), r.geo, r.req, r.providers)

\* The catch block: the response for a thrown error.
ErrorResponse(h, params, error, geocoders) ==
    IF error.name = "ZodError"
    THEN [status |-> 400, handler |-> h, req |-> params, error |-> "Invalid parameters",
          details |-> error.issues]
    ELSE IF error.message = "City not found"
    THEN [status |-> 404, handler |-> h, req |-> params, error |-> error.message,
          geocoders |-> geocoders]
    ELSE [status |-> 500, handler |-> h, req |-> params, error |-> "Internal server error",
          geocoders |-> geocoders]

ZodError(issues) == [name |-> "ZodError", issues |-> issues]
Error(message) == [name |-> "Error", message |-> message]

\* A join that resolves with the first call that settles.
AnySettled(cs, provs) ==
    provs = <<>> \/ \E i \in DOMAIN provs : cs[provs[i]].st \in {"fulfilled", "rejected"}

\* Promise.allSettled resolves once every call has settled.
AllSettled(cs, provs) == \A i \in DOMAIN provs : IsSettled(cs[provs[i]])

\* providers.map(p => p.fetchItems(...)): every call runs up to its first
\* await, in registration order; the limiter then starts what it can.
AfterFanOut(h, validated, g) ==
    LET provs == EnabledProviders(apiKeys)
        params == ProviderParams(validated, g)
        begun == [p \in ProviderNames |->
                    IF p \in Range(provs)
                    THEN FetchWithCacheBegin(CacheKey(p, params), providerCache, now)
                    ELSE NoCall]
        waiting == SelectItems([i \in DOMAIN provs |-> <<h, provs[i]>>],
                               {i \in DOMAIN provs : begun[provs[i]].st = "queued"})
    IN StartQueued([calls EXCEPT ![h] = begun], queue \o waiting, activeCount)

\* The handler h goes on after geocoding with the result g.
FanOut(h, validated, g) ==
    LET after == AfterFanOut(h, validated, g)
        provs == EnabledProviders(apiKeys)
    IN /\ queue' = after.queue
       /\ tried' = [tried EXCEPT ![h] = <<>>]
       /\ activeCount' = after.active
       /\ IF AllSettled(after.calls[h], provs)
          THEN /\ sent' = SearchResponse(h, validated, g, after.calls[h], provs, "none", now)
               /\ calls' = [after.calls EXCEPT ![h] = NoCalls]
               /\ pc' = [pc EXCEPT ![h] = "idle"]
               /\ req' = [req EXCEPT ![h] = NoRequest]
               /\ geo' = [geo EXCEPT ![h] = NoGeo]
          ELSE /\ sent' = NoResponse
               /\ calls' = after.calls
               /\ pc' = [pc EXCEPT ![h] = "fetching"]
               /\ req' = [req EXCEPT ![h] = validated]
               /\ geo' = [geo EXCEPT ![h] = g]

\* A handler ends with an error response; geocoders: what the geocoders
\* consulted for this request answered.
Fail(h, params, error, geocoders) ==
    /\ sent' = ErrorResponse(h, params, error, geocoders)
    /\ tried' = [tried EXCEPT ![h] = <<>>]
    /\ pc' = [pc EXCEPT ![h] = "idle"]
    /\ req' = [req EXCEPT ![h] = NoRequest]
    /\ geo' = [geo EXCEPT ![h] = NoGeo]
    /\ UNCHANGED <<calls, queue, activeCount>>

\* A request whose parameters searchParamsSchema.parse rejects.
GET_Invalid(h, params) ==
    /\ h \in workers /\ pc[h] = "idle" /\ params \in traffic
    /\ ValidationIssues(params) # {}
    /\ Fail(h, params, ZodError(ValidationIssues(params)), <<>>)
    /\ UNCHANGED <<retry, reply, stage, now, workers, traffic, apiKeys, googleKey, fetcherKind, providerCache, geocodeCache>>

\* A valid request whose city is in the geocoding cache.
GET_Cached(h, params) ==
    /\ h \in workers /\ pc[h] = "idle" /\ params \in traffic
    /\ ValidationIssues(params) = {}
    /\ LET cached == CacheGet(geocodeCache, toLowerCase(params.city))
       IN /\ IsFresh(cached, now, GEO_CACHE_TTL)
          /\ FanOut(h, params, cached.result)
    /\ UNCHANGED <<retry, reply, stage, now, workers, traffic, apiKeys, googleKey, fetcherKind, providerCache, geocodeCache>>

\* A valid request that has to ask Nominatim.
GET_Geocode(h, params) ==
    /\ h \in workers /\ pc[h] = "idle" /\ params \in traffic
    /\ ValidationIssues(params) = {}
    /\ ~IsFresh(CacheGet(geocodeCache, toLowerCase(params.city)), now, GEO_CACHE_TTL)
    /\ pc' = [pc EXCEPT ![h] = "nominatim"]
    /\ req' = [req EXCEPT ![h] = params]
    /\ sent' = NoResponse
    /\ UNCHANGED <<retry, reply, stage, now, workers, traffic, apiKeys, googleKey, fetcherKind, providerCache, geocodeCache,
                   activeCount, queue, geo, calls, tried>>

(***************************************************************************)
(* geocodeCity.                                                            *)
(***************************************************************************)
GeocoderOutcomes(city) ==
    IF city \in KnownCities THEN {"found", "error"} ELSE {"empty", "error"}

\* geocodeWithNominatim returned: the result is cached and the search goes on.
NominatimFound(h) ==
    /\ pc[h] = "nominatim"
    /\ "found" \in GeocoderOutcomes(req[h].city)
    /\ LET result == GeocodingResult(req[h].city, "nominatim")
       IN /\ geocodeCache' = CacheSet(geocodeCache, toLowerCase(req[h].city),
                                      [result |-> result, timestamp |-> now])
          /\ FanOut(h, req[h], result)
    /\ UNCHANGED <<retry, reply, stage, now, workers, traffic, apiKeys, googleKey, fetcherKind, providerCache>>

\* geocodeWithNominatim threw (no match, HTTP error, transport error): the
\* catch block discards the error.
NominatimFailed(h, outcome) ==
    /\ pc[h] = "nominatim"
    /\ outcome \in GeocoderOutcomes(req[h].city) \ {"found"}
    /\ IF googleKey
       THEN /\ pc' = [pc EXCEPT ![h] = "google"]
            /\ tried' = [tried EXCEPT ![h] = <<outcome>>]
            /\ sent' = NoResponse
            /\ UNCHANGED <<req, geo, calls, queue, activeCount>>
       ELSE Fail(h, req[h], Error("Failed to geocode city"), <<outcome>>)
    /\ UNCHANGED <<retry, reply, stage, now, workers, traffic, apiKeys, googleKey, fetcherKind, providerCache, geocodeCache>>

\* geocodeWithGooglePlaces returned: its result is returned without caching.
GoogleFound(h) ==
    /\ pc[h] = "google"
    /\ "found" \in GeocoderOutcomes(req[h].city)
    /\ FanOut(h, req[h], GeocodingResult(req[h].city, "google"))
    /\ UNCHANGED <<retry, reply, stage, now, workers, traffic, apiKeys, googleKey, fetcherKind, providerCache, geocodeCache>>

GoogleFailed(h, outcome) ==
    /\ pc[h] = "google"
    /\ outcome \in GeocoderOutcomes(req[h].city) \ {"found"}
    /\ Fail(h, req[h],
            IF outcome = "empty" THEN Error("City not found")
            ELSE Error("Google Geocoding API error"),
            Append(tried[h], outcome))
    /\ UNCHANGED <<retry, reply, stage, now, workers, traffic, apiKeys, googleKey, fetcherKind, providerCache, geocodeCache>>

(***************************************************************************)
(* A running fetcher settles: fetchWithCache goes on after its await, the  *)
(* limiter starts the next queued fetcher, and the handler goes on if this *)
(* was its last pending call.                                              *)
(***************************************************************************)
FetcherSettles(h, p, net) ==
    /\ pc[h] = "fetching"
    /\ calls[h][p].st = "running"
    /\ net \in NetOutcomes(p)
    /\ LET result == Fetcher(fetcherKind, p, net, ProviderParams(req[h], geo[h]))
           settled == FetchWithCacheSettle(calls[h][p], result, net.kind)
           after == StartQueued([calls EXCEPT ![h][p] = settled], queue, activeCount - 1)
           provs == EnabledProviders(apiKeys)
       IN /\ providerCache' = FetchWithCacheStore(providerCache, calls[h][p], result, now)
          /\ queue' = after.queue
          /\ activeCount' = after.active
          /\ IF AllSettled(after.calls[h], provs)
             THEN /\ sent' = SearchResponse(h, req[h], geo[h], after.calls[h], provs, p, now)
                  /\ calls' = [after.calls EXCEPT ![h] = NoCalls]
                  /\ pc' = [pc EXCEPT ![h] = "idle"]
                  /\ req' = [req EXCEPT ![h] = NoRequest]
                  /\ geo' = [geo EXCEPT ![h] = NoGeo]
             ELSE /\ sent' = NoResponse
                  /\ calls' = after.calls
                  /\ UNCHANGED <<pc, req, geo>>
          /\ UNCHANGED tried
    /\ UNCHANGED <<retry, reply, stage, now, workers, traffic, apiKeys, googleKey, fetcherKind, geocodeCache>>

\* Time passes.
Tick ==
    /\ now < MaxTicks * TickMinutes
    /\ now' = now + TickMinutes
    /\ sent' = NoResponse
    /\ UNCHANGED <<retry, reply, stage, workers, traffic, apiKeys, googleKey, fetcherKind,
                   providerCache, geocodeCache, activeCount, queue, pc, req, geo, calls, tried>>

MainInit ==
    /\ now = 0
    /\ apiKeys \in SUBSET ProviderNames
    /\ googleKey \in BOOLEAN
    /\ providerCache = EmptyCache
    /\ geocodeCache = EmptyCache
    /\ activeCount = 0
    /\ queue = <<>>
    /\ pc = [h \in Handlers |-> "idle"]
    /\ req = [h \in Handlers |-> NoRequest]
    /\ geo = [h \in Handlers |-> NoGeo]
    /\ tried = [h \in Handlers |-> <<>>]
    /\ calls = [h \in Handlers |-> NoCalls]
    /\ sent = NoResponse
    /\ retry = NoRetry
    /\ reply = NoReply
    /\ stage = NoStage

MainNext ==
    \/ \E h \in Handlers, params \in ParamChoices :
          \/ GET_Invalid(h, params)
          \/ GET_Cached(h, params)
          \/ GET_Geocode(h, params)
    \/ \E h \in Handlers :
          \/ NominatimFound(h)
          \/ GoogleFound(h)
          \/ \E outcome \in {"empty", "error"} :
                \/ NominatimFailed(h, outcome)
                \/ GoogleFailed(h, outcome)
          \/ \E p \in ProviderNames : \E net \in NetOutcomes(p) : FetcherSettles(h, p, net)
    \/ Tick

vars == mainVars

SomeInvalidParams == Params(<<>>, DateParam(0), DateParam(DAY), NoFilter)

Init ==
    /\ MainInit /\ fetcherKind = "adapter" /\ workers = {"h1"}
    /\ traffic = ParamChoices
Next == MainNext
Spec == Init /\ [][Next]_vars

InitContract ==
    /\ MainInit /\ fetcherKind \in {"adapter", "contract"} /\ workers = {"h1"}
    /\ traffic = ValidParamChoices \cup {SomeInvalidParams}
SpecContract == InitContract /\ [][Next]_vars

(***************************************************************************)
(* Two requests in flight at once, on a server with every provider         *)
(* enabled and no fallback geocoder, serving searches for one city, within *)
(* one tick of the clock.                                                  *)
(***************************************************************************)
InitConcurrent ==
    /\ MainInit /\ fetcherKind = "contract" /\ workers = Handlers
    /\ apiKeys = ProviderNames /\ googleKey = FALSE
    /\ traffic = {Params(Rome, DateParam(0), DateParam(MaxRangeDays * DAY), NoFilter)}

\* The network answers with the full listing or the fetch throws.
ConcurrentNetOutcomes(p) == NetOutcomes(p) \ {[kind |-> "notok"], NetOk(<<EventTalk>>)}

NextConcurrent ==
    \/ \E h \in Handlers, params \in ParamChoices :
          \/ GET_Cached(h, params)
          \/ GET_Geocode(h, params)
    \/ \E h \in Handlers :
          \/ NominatimFound(h)
          \/ NominatimFailed(h, "error")
          \/ \E p \in ProviderNames : \E net \in ConcurrentNetOutcomes(p) :
                FetcherSettles(h, p, net)

SpecConcurrent == InitConcurrent /\ [][NextConcurrent]_vars

\* While fetchers run, one of them settles in the end: the network answers,
\* fails or times out (AbortSignal.timeout in fetchWithRetry).
FairSpecConcurrent ==
    SpecConcurrent
    /\ WF_vars(\E h \in Handlers : \E p \in ProviderNames : \E net \in ConcurrentNetOutcomes(p) :
                  FetcherSettles(h, p, net))

(***************************************************************************)
(* Two requests for the same city in flight at once on a server with one   *)
(* provider enabled, while time passes: calls of fetchWithCache with the   *)
(* same key overlap, and the provider's answer changes between fetches.    *)
(***************************************************************************)
InitOverlap ==
    /\ MainInit /\ fetcherKind \in {"adapter", "contract"} /\ workers = Handlers
    /\ apiKeys = {"Eventbrite"} /\ googleKey = FALSE
    /\ traffic = {Params(Rome, DateParam(0), DateParam(MaxRangeDays * DAY), NoFilter)}

NextOverlap ==
    \/ \E h \in Handlers, params \in ParamChoices :
          \/ GET_Cached(h, params)
          \/ GET_Geocode(h, params)
    \/ \E h \in Handlers :
          \/ NominatimFound(h)
          \/ \E p \in ProviderNames : \E net \in NetOutcomes(p) : FetcherSettles(h, p, net)
    \/ Tick

SpecOverlap == InitOverlap /\ [][NextOverlap]_vars

(***************************************************************************)
(* BaseProvider.fetchWithRetry.  The frame holds the loop index i, the     *)
(* fetch calls made, lastError and the delays slept (ms); the call is      *)
(* suspended at the fetch ("fetch"), at the wait after a 429 ("wait429")   *)
(* or at the wait after a caught error ("backoff"), and ends "returned"    *)
(* or "threw".  logged is what the call wrote to the console, one entry    *)
(* per attempt that did not return: "Rate limited" (console.log, line 78)  *)
(* or the caught error (console.warn, line 91).                            *)
(***************************************************************************)
RECURSIVE Pow2(_)
Pow2(n) == IF n <= 0 THEN 1 ELSE 2 * Pow2(n - 1)

ResponseStatuses == {200, 404, 429, 500}
FetchErrors == {"network", "timeout"}
JitterChoices == {0, 999}           \* Math.random() * 1000, in [0, 1000)

\* A loop test that runs the body once more.
LoopContinuesInclusive(i, maxRetries) == i <= maxRetries

\* for (...; i < maxRetries; ...)
LoopContinues(i, maxRetries) == i < maxRetries

\* The loop test with i = frame.i: the next fetch is issued, or the loop is
\* left and line 101 throws.
LoopHead(frame) ==
    IF LoopContinues(frame.i, frame.maxRetries)
    THEN [frame EXCEPT !.pc = "fetch", !.attempts = @ + 1]
    ELSE Spread([frame EXCEPT !.pc = "threw"],
                [error |-> IF frame.lastError = "null"
                           THEN "Failed to fetch after retries"
                           ELSE frame.lastError])

\* A catch block that keeps the first error it saw.
CaughtKeepsFirst(frame, error) ==
    LET f == [frame EXCEPT !.lastError = IF @ = "null" THEN error ELSE @,
                           !.logged = Append(@, error)]
    IN IF f.i < f.maxRetries - 1
       THEN Spread([f EXCEPT !.pc = "backoff"],
                   [delay |-> Min2(500 * Pow2(f.i), 5000)])
       ELSE LoopHead([f EXCEPT !.i = @ + 1])

\* The catch block, then i++ and the loop test when it does not wait.
Caught(frame, error) ==
    LET f == [frame EXCEPT !.lastError = error, !.logged = Append(@, error)]
    IN IF f.i < f.maxRetries - 1
       THEN Spread([f EXCEPT !.pc = "backoff"],
                   [delay |-> Min2(500 * Pow2(f.i), 5000)])
       ELSE LoopHead([f EXCEPT !.i = @ + 1])

retryUnchanged ==
    UNCHANGED <<reply, stage, now, workers, traffic, apiKeys, googleKey, fetcherKind, providerCache,
                geocodeCache, activeCount, queue, pc, req, geo, tried, calls, sent>>

\* A call fetchWithRetry(url, options, maxRetries).
FetchWithRetryCalled(maxRetries) ==
    /\ retry.pc = "idle"
    /\ retry' = LoopHead([pc |-> "loop", maxRetries |-> maxRetries, i |-> 0, attempts |-> 0,
                          lastError |-> "null", slept |-> <<>>, logged |-> <<>>])
    /\ retryUnchanged

\* fetch resolves with a response.
FetchResolves(status, jitter) ==
    /\ retry.pc = "fetch"
    /\ retry' =
         IF status = 429
         THEN Spread([retry EXCEPT !.pc = "wait429", !.logged = Append(@, "Rate limited")],
                     [delay |-> Min2(1000 * Pow2(retry.i), 10000) + jitter])
         ELSE IF ~(status \in 200..299) /\ status >= 500
         THEN Caught(retry, "HTTP " \o ToString(status))
         ELSE Spread([retry EXCEPT !.pc = "returned"], [response |-> status])
    /\ retryUnchanged

\* fetch rejects: a transport failure, or the abort signal's timeout.
FetchRejects(error) ==
    /\ retry.pc = "fetch"
    /\ retry' = Caught(retry, error)
    /\ retryUnchanged

\* The timer of a wait fires: continue, or the end of the loop body; i++.
TimerFires ==
    /\ retry.pc \in {"wait429", "backoff"}
    /\ retry' = LoopHead([i |-> retry.i + 1, maxRetries |-> retry.maxRetries,
                          attempts |-> retry.attempts, lastError |-> retry.lastError,
                          slept |-> Append(retry.slept, retry.delay),
                          logged |-> retry.logged, pc |-> "loop"])
    /\ retryUnchanged

InitRetry ==
    /\ MainInit /\ fetcherKind = "adapter" /\ workers = {} /\ traffic = {}
    /\ apiKeys = {} /\ googleKey = FALSE

NextRetry ==
    \/ \E maxRetries \in 0..MaxRetriesArg : FetchWithRetryCalled(maxRetries)
    \/ \E status \in ResponseStatuses : \E jitter \in JitterChoices : FetchResolves(status, jitter)
    \/ \E error \in FetchErrors : FetchRejects(error)
    \/ TimerFires

SpecRetry == InitRetry /\ [][NextRetry]_vars

\* A pending fetch settles (AbortSignal.timeout bounds it) and a timer fires.
FairSpecRetry ==
    SpecRetry
    /\ WF_vars(\/ \E status \in ResponseStatuses : \E jitter \in JitterChoices :
                     FetchResolves(status, jitter)
               \/ \E error \in FetchErrors : FetchRejects(error))
    /\ WF_vars(TimerFires)

(***************************************************************************)
(* GET from the raw items to the response body (lines 60-80), on raw item  *)
(* lists of every shape, longer than the cut of the response included.     *)
(***************************************************************************)
ItemPool == {EventJazz, EventTalk, MeetupJazz, Attraction(1)}

\* The lists of at most MaxRawLen different items of the pool.
SmallRawLists ==
    UNION {{raw \in [1..n -> ItemPool] : \A i, j \in 1..n : i # j => raw[i] # raw[j]}
              : n \in 0..MaxRawLen}

BigRawList == [i \in 1..BigCount |-> Attraction(i)]

RawLists ==
    SmallRawLists
    \cup {BigRawList, BigRawList \o <<EventJazz, MeetupJazz>>,
          getMockItems(Rome, DateParam(0))}

FilterChoices == {NoFilter, Filter(<<>>), Filter(<<"attraction">>), Filter(<<"event", "tour">>)}

InitPayload ==
    /\ now = 0 /\ fetcherKind = "adapter" /\ workers = {} /\ traffic = {}
    /\ apiKeys = {} /\ googleKey = FALSE
    /\ providerCache = EmptyCache /\ geocodeCache = EmptyCache
    /\ activeCount = 0 /\ queue = <<>>
    /\ pc = [h \in Handlers |-> "idle"]
    /\ req = [h \in Handlers |-> NoRequest]
    /\ geo = [h \in Handlers |-> NoGeo]
    /\ tried = [h \in Handlers |-> <<>>]
    /\ calls = [h \in Handlers |-> NoCalls]
    /\ sent = NoResponse
    /\ retry = NoRetry
    /\ stage = NoStage
    /\ \E raw \in RawLists : \E categories \in FilterChoices :
          reply = [stage |-> "raw", allItems |-> raw,
                   req |-> Params(Rome, DateParam(0), DateParam(MaxRangeDays * DAY), categories),
                   geo |-> GeocodingResult(Rome, "nominatim"),
                   providers |-> <<"Eventbrite", "OpenTripMap", "Meetup">>,
                   at |-> 0]

\* Lines 60-80 in one step: the four stages, then the body.
GET_Respond ==
    /\ reply.stage = "raw"
    /\ reply' = Spread([reply EXCEPT !.stage = "sent"], [body |-> ResponseBody(reply)])
    /\ UNCHANGED <<retry, stage, now, workers, traffic, apiKeys, googleKey, fetcherKind, providerCache,
                   geocodeCache, activeCount, queue, pc, req, geo, tried, calls, sent>>

NextPayload == GET_Respond

SpecPayload == InitPayload /\ [][NextPayload]_vars

(***************************************************************************)
(* The exported functions of lib/aggregate.ts called on their own:         *)
(* normalize on a list of raw items, then filterByDateRange, dedupe or     *)
(* rank on the normalized items, with every choice of the other            *)
(* arguments.  stage holds the arguments and the result of the last call.  *)
(***************************************************************************)
\* Further provider items: EventJazz seen again with another popularity, with
\* popularity 0 and with another title; a Meetup tour without a time, and an exhibition of
\* some other provider.
JazzPopular == [EventJazz EXCEPT !.popularity = 80]
JazzUnrated == [EventJazz EXCEPT !.popularity = 0]

JazzRenamed ==
    [EventJazz EXCEPT !.title = <<"J","a","z","z"," ","N","i","g","h","t"," ","!">>,
                      !.popularity = 50]

OpenTour ==
    [externalId |-> "t1", source |-> "meetup", title |-> <<"C","i","t","y"," ","W","a","l","k">>,
     category |-> <<"event", "tour">>, city |-> Rome, priceMin |-> 15, currency |-> "EUR",
     url |-> "https://meetup/t1", tags |-> <<>>, isFamilyFriendly |-> TRUE,
     isIndoor |-> FALSE, language |-> "en"]

Exhibition ==
    [externalId |-> "e3", source |-> "museums", title |-> <<"A","r","t"," ","S","h","o","w">>,
     category |-> <<"exhibition", "event">>,
     startTime |-> ISO(0 - 2 * DAY, "Z"), endTime |-> ISO(5 * DAY, "Z"),
     timezone |-> "Europe/Rome", city |-> Rome, lat |-> 418900, lng |-> 124800,
     url |-> "https://museums/e3", tags |-> <<>>, isFamilyFriendly |-> TRUE,
     isIndoor |-> TRUE, language |-> "it", popularity |-> 60]

StagePool ==
    {EventJazz, MeetupJazz, EventTalk, Attraction(1), JazzPopular, JazzRenamed, OpenTour,
     Exhibition}

\* The lists of at most MaxItems items of the pool, four longer ones, and two
\* of events that start one, three, seven and eight days after time 0, and
\* half a day before each of those.
StageInputs ==
    UNION {[1..n -> StagePool] : n \in 0..MaxItems}
    \cup {<<EventJazz, Attraction(1), MeetupJazz>>,
          <<JazzUnrated, EventJazz, JazzPopular>>,
          <<EventJazz, OpenTour, JazzPopular, MeetupJazz>>,
          <<OpenTour, Exhibition, EventTalk, EventJazz, Attraction(1)>>}
    \cup {[k \in 1..4 |-> [EventJazz EXCEPT !.startTime = ISO(days[k] * DAY - early, "Z")]] :
             days \in {<<1, 3, 7, 8>>}, early \in {0, 12 * HOUR}}

InitStages ==
    /\ MainInit /\ fetcherKind = "adapter" /\ workers = {} /\ traffic = {}
    /\ apiKeys = {} /\ googleKey = FALSE

stageUnchanged ==
    UNCHANGED <<retry, reply, now, workers, traffic, apiKeys, googleKey, fetcherKind,
                providerCache, geocodeCache, activeCount, queue, pc, req, geo, tried, calls, sent>>

\* A provider hands over its items.
ItemsArrive(items) ==
    /\ stage.fn = "none"
    /\ stage' = [fn |-> "fetchItems", out |-> items]
    /\ stageUnchanged

\* normalize(items, timezone, filterCategories)
NormalizeCalled(timezone, filterCategories) ==
    /\ stage.fn = "fetchItems"
    /\ stage' = [fn |-> "normalize", items |-> stage.out, timezone |-> timezone,
                 filterCategories |-> filterCategories, at |-> now,
                 out |-> normalize(stage.out, timezone, filterCategories, now)]
    /\ stageUnchanged

\* filterByDateRange(items, startISO, endISO)
FilterByDateRangeCalled(startISO, endISO) ==
    /\ stage.fn = "normalize"
    /\ stage' = [fn |-> "filterByDateRange", items |-> stage.out,
                 startISO |-> startISO, endISO |-> endISO,
                 out |-> filterByDateRange(stage.out, startISO, endISO)]
    /\ stageUnchanged

\* dedupe(items)
DedupeCalled ==
    /\ stage.fn = "normalize"
    /\ stage' = [fn |-> "dedupe", items |-> stage.out, out |-> dedupe(stage.out)]
    /\ stageUnchanged

\* rank(items, { center, sortBy })
RankCalled(center, sortBy) ==
    /\ stage.fn = "normalize"
    /\ stage' = [fn |-> "rank", items |-> stage.out, center |-> center, sortBy |-> sortBy,
                 at |-> now, out |-> rank(stage.out, center, sortBy, now)]
    /\ stageUnchanged

\* Time passes before the items arrive.
StageTick ==
    /\ stage.fn = "none" /\ now < MaxTicks * DAY
    /\ now' = now + DAY
    /\ UNCHANGED <<retry, reply, stage, workers, traffic, apiKeys, googleKey, fetcherKind,
                   providerCache, geocodeCache, activeCount, queue, pc, req, geo, tried, calls,
                   sent>>

NextStages ==
    \/ StageTick
    \/ \E items \in StageInputs : ItemsArrive(items)
    \/ \E timezone \in {"Europe/Rome", "UTC"} : \E filterCategories \in FilterChoices :
          NormalizeCalled(timezone, filterCategories)
    \/ \E window \in {<<0, DAY>>, <<720, 3 * DAY>>} :
          FilterByDateRangeCalled(ISO(window[1], "Z"), ISO(window[2], "Z"))
    \/ DedupeCalled
    \/ \E center \in {<<>>, <<419000, 125000>>} :
          \E sortBy \in {"recommended", "soonest", "closest", "price"} :
             RankCalled(center, sortBy)

SpecStages == InitStages /\ [][NextStages]_vars

(***************************************************************************)
(* dedupe on lists made to merge: two or three listings of one event that  *)
(* differ in title, start time, place and in what they carry of            *)
(* description, image and popularity.  An absent optional value is <<>>.   *)
(***************************************************************************)
MergeItem(externalId, title, start, place, description, imageUrl, popularity) ==
    Spread(Spread(Spread(Spread(Spread(
        [externalId |-> externalId, source |-> "eventbrite", title |-> title,
         category |-> <<"event">>, timezone |-> "UTC", city |-> Rome,
         url |-> "https://eventbrite/" \o externalId],
        IF start = <<>> THEN <<>> ELSE [startTime |-> ISO(start[1], "Z")]),
        IF place = <<>> THEN <<>> ELSE [lat |-> place[1], lng |-> place[2]]),
        IF description = <<>> THEN <<>> ELSE [description |-> description[1]]),
        IF imageUrl = <<>> THEN <<>> ELSE [imageUrl |-> imageUrl[1]]),
        IF popularity = <<>> THEN <<>> ELSE [popularity |-> popularity[1]])

JazzNight == <<"J","a","z","z"," ","N","i","g","h","t">>

\* Titles at similarity 1, 0.9, 0.82 and 0.6 of "Jazz Night".
MergeTitles ==
    {JazzNight,
     <<"J","a","z","z"," ","F","i","g","h","t">>,
     <<"J","a","z","z"," ","F","i","g","h","t","s","!">>,
     <<"R","o","c","k"," ","N","i","g","h","t">>}

\* Pairs of places: none, a place in Rome, one 70 m from it and one 550 m
\* from it; and none, a place on the Greenwich meridian, one 55 m north of it
\* on the meridian, and the two places on the equator at those distances.
MergePlacePairs ==
    ({<<>>, <<419000, 125000>>, <<419005, 125004>>, <<419050, 125000>>}
        \X {<<>>, <<419000, 125000>>, <<419005, 125004>>, <<419050, 125000>>})
    \cup ({<<>>, <<514800, 0>>, <<514805, 0>>} \X {<<>>, <<514800, 0>>, <<514805, 0>>})
    \cup ({<<0, 1000>>, <<0, 1005>>, <<0, 1050>>} \X {<<0, 1000>>, <<0, 1005>>, <<0, 1050>>})

MergeInputs ==
    \* the same title, time and place, every pair of contents
    {<<MergeItem("a", JazzNight, <<600>>, <<>>, d1, i1, p1),
       MergeItem("b", JazzNight, <<600>>, <<>>, d2, i2, p2)>> :
        d1 \in {<<>>, <<"">>, <<"text">>}, i1 \in {<<>>, <<"https://img/a">>},
        p1 \in {<<>>, <<0>>, <<20>>, <<80>>},
        d2 \in {<<>>, <<"">>, <<"more">>}, i2 \in {<<>>, <<"https://img/b">>},
        p2 \in {<<>>, <<0>>, <<20>>, <<80>>}}
    \* every pair of titles, times and places
    \cup {<<MergeItem("a", JazzNight, <<600>>, places[1], <<>>, <<>>, <<>>),
            MergeItem("b", title, start, places[2], <<"more">>, <<>>, <<>>)>> :
             title \in MergeTitles, start \in {<<>>, <<600>>, <<629>>, <<630>>},
             places \in MergePlacePairs}
    \* a third listing between two that are 50 minutes apart
    \cup {<<MergeItem("a", JazzNight, <<600>>, <<>>, <<>>, <<>>, <<>>),
            MergeItem("b", JazzNight, <<650>>, <<>>, <<>>, <<>>, <<>>),
            MergeItem("c", JazzNight, <<625>>, <<>>, d, <<>>, <<>>)>> :
             d \in {<<>>, <<"more">>}}

NextMerge ==
    \/ \E items \in MergeInputs : ItemsArrive(items)
    \/ NormalizeCalled("UTC", NoFilter)
    \/ DedupeCalled

SpecMerge == InitStages /\ [][NextMerge]_vars

(***************************************************************************)
(* Properties of the search endpoint and of fetchWithCache.                *)
(***************************************************************************)
\* What a step leaves of handler h's request: while it is still fetching,
\* the handler's own state; once answered, the response.
FansOut(h) ==
    /\ pc[h] \in {"idle", "nominatim", "google"}
    /\ \/ pc'[h] = "fetching"
       \/ sent'.status = 200 /\ sent'.handler = h

ReqAfter(h) == IF pc'[h] = "fetching" THEN req'[h] ELSE sent'.req
GeoAfter(h) == IF pc'[h] = "fetching" THEN geo'[h] ELSE sent'.geo
CallAfter(h, p) == IF pc'[h] = "fetching" THEN calls'[h][p] ELSE sent'.settled[p]

\* The providers whose call was fulfilled in the response r.
FulfilledProviders(r) == {p \in DOMAIN r.settled : r.settled[p].st = "fulfilled"}
RejectedProviders(r) == {p \in DOMAIN r.settled : r.settled[p].st = "rejected"}

\* The items of the fulfilled results of the response r, as a set.
UnionOfFulfilled(r) == UNION {Range(r.settled[p].value) : p \in FulfilledProviders(r)}

\* The result of provider p in the response r; empty unless fulfilled.
ResultOf(r, p) ==
    IF p \in FulfilledProviders(r) THEN r.settled[p].value ELSE <<>>

IsPlaceholder(item) == item.source = "mock"

\* C1 (as stated): in every successful response the raw items fed to the
\* pipeline are exactly the union of the fulfilled providers' results.
C1_UnionOnly ==
    sent.status = 200 => Range(sent.allItems) = UnionOfFulfilled(sent)

\* C1: provider isolation.  A handler that has fanned out to the providers
\* answers 200 and never an error response, whichever of its provider calls
\* reject; when the fulfilled providers returned at least one item the raw
\* items fed to the pipeline are exactly the union of their results, with
\* nothing of a rejected provider and nothing lost; when they returned
\* nothing, every raw item is a placeholder.
C1_ProviderIsolation ==
    /\ [](sent.status = 200 =>
            /\ UnionOfFulfilled(sent) # {} =>
                  /\ Range(sent.allItems) = UnionOfFulfilled(sent)
                  /\ Len(sent.allItems) =
                        SumSeq([i \in DOMAIN providerClasses |->
                                   Len(ResultOf(sent, providerClasses[i]))])
            /\ UnionOfFulfilled(sent) = {} =>
                  \A i \in DOMAIN sent.allItems : IsPlaceholder(sent.allItems[i]))
    /\ [][\A h \in Handlers :
            pc[h] = "fetching" /\ pc'[h] # "fetching"
               => sent'.status = 200 /\ sent'.handler = h]_vars

\* C1 witness: a successful response of a request in which one provider
\* rejected and another returned items.
C1_Witness ==
    /\ sent.status = 200
    /\ RejectedProviders(sent) # {}
    /\ UnionOfFulfilled(sent) # {}
    /\ Range(sent.allItems) = UnionOfFulfilled(sent)

\* C2 (as stated): when the network fetch of a provider call fails and the
\* provider cache holds an entry for the call's key, the call is fulfilled
\* with that entry's data; the call rejects only when the cache holds no
\* entry for the key.
C2_StaleOnFailure ==
    [][\A h \in Handlers : \A p \in ProviderNames :
          (/\ pc[h] = "fetching"
           /\ calls[h][p].st = "running"
           /\ CallAfter(h, p).st \in {"fulfilled", "rejected"}
           /\ CallAfter(h, p).net \in {"notok", "throw"})
          => /\ calls[h][p].key \in DOMAIN providerCache =>
                   /\ CallAfter(h, p).st = "fulfilled"
                   /\ CallAfter(h, p).value = providerCache[calls[h][p].key].data
             /\ CallAfter(h, p).st = "rejected" =>
                   calls[h][p].key \notin DOMAIN providerCache]_vars

\* C3: cache-hit short circuit.  In the step in which a handler calls
\* fetchItems on the enabled providers, a call whose key has an entry younger
\* than the TTL is fulfilled with the entry's data without any network
\* outcome, is not handed to the limiter, and leaves the entry as it was; a
\* call whose key has no entry, or an entry as old as the TTL or older, is
\* handed to the limiter (queued or running); the limiter's running count
\* grows by the handler's calls that are running after the step.
C3_CacheHitShortCircuit ==
    [][\A h \in Handlers :
          FansOut(h) =>
            /\ \A p \in Range(EnabledProviders(apiKeys)) :
                  LET key == CacheKey(p, ProviderParams(ReqAfter(h), GeoAfter(h)))
                      call == CallAfter(h, p)
                  IN IF key \in DOMAIN providerCache
                        /\ now - providerCache[key].timestamp < CACHE_TTL
                     THEN /\ call.st = "fulfilled"
                          /\ call.net = "none"
                          /\ call.value = providerCache[key].data
                          /\ key \in DOMAIN providerCache'
                          /\ providerCache'[key] = providerCache[key]
                          /\ \A i \in DOMAIN queue' : queue'[i] # <<h, p>>
                     ELSE call.st \in {"queued", "running"}
            /\ activeCount' - activeCount =
                  Cardinality({p \in ProviderNames :
                                  pc'[h] = "fetching" /\ calls'[h][p].st = "running"})]_vars

\* C3 witness: a handler has just fanned out; one call was answered from an
\* entry younger than the TTL, another found an expired entry and runs.
C3_Witness ==
    \E h \in Handlers :
        /\ pc[h] = "fetching"
        /\ \E p \in ProviderNames :
              /\ calls[h][p].st = "fulfilled" /\ calls[h][p].net = "none"
              /\ now - calls[h][p].cached.timestamp < CACHE_TTL
        /\ \E q \in ProviderNames :
              /\ calls[h][q].st = "running" /\ calls[h][q].cached.has
              /\ now - calls[h][q].cached.timestamp >= CACHE_TTL

\* The provider fetchers that have started and not yet settled, and those
\* waiting in the limiter's queue, over all handlers.
RunningFetchers == {hp \in Handlers \X ProviderNames : calls[hp[1]][hp[2]].st = "running"}
QueuedFetchers == {hp \in Handlers \X ProviderNames : calls[hp[1]][hp[2]].st = "queued"}

\* C4: bounded concurrency.  Over all handlers and providers at most
\* MAX_CONCURRENT_REQUESTS fetchers are running, the limiter's count is their
\* number, and the limiter's queue holds exactly the waiting fetchers; every
\* fetcher that waits in the queue is started in the end, given that running
\* fetchers settle.
C4_BoundedConcurrency ==
    /\ [](/\ Cardinality(RunningFetchers) <= MAX_CONCURRENT_REQUESTS
          /\ activeCount = Cardinality(RunningFetchers)
          /\ Range(queue) = QueuedFetchers
          /\ Len(queue) = Cardinality(QueuedFetchers))
    /\ \A h \in Handlers : \A p \in ProviderNames :
          (calls[h][p].st = "queued") ~> (calls[h][p].st = "running")

\* C4 witness: two requests are in flight, three fetchers run and a fetcher
\* of the other request waits behind them.
C4_Witness ==
    /\ Cardinality(RunningFetchers) = MAX_CONCURRENT_REQUESTS
    /\ \E hp \in QueuedFetchers : \E hq \in RunningFetchers : hp[1] # hq[1]

\* C5 (as stated): a request for which a geocoder answered that no location
\* matches the city, and which ended in an error, ended in 404.
C5_NotFoundIs404 ==
    (sent.status \in {404, 500} /\ "empty" \in Range(sent.geocoders))
        => sent.status = 404

\* The conditions under which a request's parameters fail validation.
FailsValidation(params) ==
    \/ Len(params.city) = 0
    \/ Len(params.city) > 100
    \/ ~params.start.wf
    \/ ~params.end.wf
    \/ params.start.wf /\ params.end.wf /\ ~(params.end.t > params.start.t)
    \/ params.start.wf /\ params.end.wf /\ params.end.t - params.start.t > 60 * 24 * 60
    \/ /\ params.categories.given
       /\ \E i \in DOMAIN params.categories.list :
             params.categories.list[i] \notin {"event", "exhibition", "attraction", "seminar", "tour"}

\* C6: validation precedes I/O.  A response is 400 exactly when the
\* request's parameters fail validation, and it then carries issue details;
\* no handler is ever geocoding or fetching for a request whose parameters
\* fail validation; the step that answers 400 leaves both caches, every
\* provider call, the limiter and every handler's position as they were.
C6_ValidationPrecedesIO ==
    /\ [](/\ sent.status # 0 => (sent.status = 400 <=> FailsValidation(sent.req))
          /\ sent.status = 400 => sent.details # {}
          /\ \A h \in Handlers : pc[h] # "idle" => ~FailsValidation(req[h]))
    /\ [][sent'.status = 400 =>
            UNCHANGED <<providerCache, geocodeCache, calls, queue, activeCount, pc, tried>>]_vars

\* C6 witness: a request whose span exceeds 60 days by a minute has been
\* answered 400 while the caches hold entries of an earlier search.
C6_Witness ==
    /\ sent.status = 400
    /\ sent.req.start.wf /\ sent.req.end.wf
    /\ sent.req.end.t - sent.req.start.t = 60 * 24 * 60 + 1
    /\ DOMAIN providerCache # {}
    /\ DOMAIN geocodeCache # {}

\* C7: placeholder fallback.  In every successful response: if the combined
\* results of the fulfilled providers are empty, the raw items fed to the
\* pipeline are the placeholder dataset of the request's city and start; if
\* some provider returned an item, no raw item is a placeholder.
C7_PlaceholderFallback ==
    sent.status = 200 =>
        /\ (\A p \in FulfilledProviders(sent) : sent.settled[p].value = <<>>)
              => sent.allItems = getMockItems(sent.req.city, sent.req.start)
        /\ (\E p \in FulfilledProviders(sent) : sent.settled[p].value # <<>>)
              => \A i \in DOMAIN sent.allItems : ~IsPlaceholder(sent.allItems[i])

\* C7 witness: every enabled provider failed and the response was built from
\* the placeholder dataset.
C7_Witness ==
    /\ sent.status = 200
    /\ Len(sent.providers) = 3
    /\ RejectedProviders(sent) = ProviderNames
    /\ Len(sent.allItems) = 5
    /\ \A i \in DOMAIN sent.allItems : IsPlaceholder(sent.allItems[i])

\* C8: join and union order.  A successful response is sent only when every
\* enabled provider's call has settled, and not in a step that leaves a call
\* of the handler queued or running; the raw items, when any provider
\* returned one, are Eventbrite's result, then OpenTripMap's, then Meetup's,
\* each as the provider returned it.
C8_JoinAndOrder ==
    /\ [](sent.status = 200 =>
            /\ DOMAIN sent.settled = Range(sent.providers)
            /\ \A p \in DOMAIN sent.settled : sent.settled[p].st \in {"fulfilled", "rejected"}
            /\ LET joined == ResultOf(sent, "Eventbrite") \o ResultOf(sent, "OpenTripMap")
                                \o ResultOf(sent, "Meetup")
               IN joined # <<>> => sent.allItems = joined)
    /\ [][\A h \in Handlers :
            (\E p \in ProviderNames : calls'[h][p].st \in {"queued", "running"})
               => ~(sent'.status = 200 /\ sent'.handler = h)]_vars

\* C8 witness: the Eventbrite call settled last, after OpenTripMap's and
\* Meetup's, and its items still come first.
C8_Witness ==
    /\ sent.status = 200
    /\ sent.last = "Eventbrite"
    /\ FulfilledProviders(sent) = ProviderNames
    /\ sent.settled["Eventbrite"].net = "ok"
    /\ sent.settled["Meetup"].net = "ok"
    /\ sent.allItems[1].source = "eventbrite"
    /\ sent.allItems[Len(sent.allItems)].source = "meetup"

\* C9: result payload.  The body of a successful response is built from the
\* raw items by normalize, then filterByDateRange, then dedupe, then rank:
\* its count is the length of that ranked list, whatever its length, its
\* items are the first min(count, 200) of the list in the list's order, and
\* the list is in order of falling score.
C9_ResultPayload ==
    reply.stage = "sent" =>
        LET normalized == normalize(reply.allItems, reply.geo.timezone, reply.req.categories,
                                    reply.at)
            filtered == filterByDateRange(normalized, reply.req.start, reply.req.end)
            unique == dedupe(filtered)
            ranked == rank(unique, <<reply.geo.lat, reply.geo.lng>>, "recommended", reply.at)
        IN /\ reply.body.count = Len(ranked)
           /\ Len(reply.body.items) = (IF Len(ranked) < 200 THEN Len(ranked) ELSE 200)
           /\ \A i \in DOMAIN reply.body.items : reply.body.items[i] = ranked[i]
           /\ \A i \in 1..(Len(ranked) - 1) :
                 ~ScoreGreater(ranked[i + 1].score, ranked[i].score)

\* C9 witness: a response whose count exceeds 200 and is smaller than the
\* number of raw items (two of them were merged), with 200 items returned.
C9_Witness ==
    /\ reply.stage = "sent"
    /\ reply.body.count > 200
    /\ reply.body.count < Len(reply.allItems)
    /\ Len(reply.body.items) = 200

\* C10: retry is bounded and terminates.  A fetchWithRetry call never makes
\* more than maxRetries fetch calls; once called it ends, returning a
\* response or throwing an error, given that every pending fetch settles and
\* every timer fires.
C10_RetryBoundedAndTerminates ==
    /\ [](retry.pc # "idle" =>
            /\ retry.attempts <= retry.maxRetries
            /\ retry.pc = "returned" => retry.response \in ResponseStatuses
            /\ retry.pc = "threw" => retry.error # "null")
    /\ (retry.pc \in {"fetch", "wait429", "backoff"}) ~> (retry.pc \in {"returned", "threw"})

\* C10 witness: a call with the default maxRetries has thrown after three
\* fetch calls, having waited once after a 429 and once after a failure.
C10_Witness ==
    /\ retry.pc = "threw"
    /\ retry.maxRetries = DefaultMaxRetries
    /\ retry.attempts = DefaultMaxRetries
    /\ Len(retry.slept) = 2
    /\ retry.slept[1] \in {1000, 1999}
    /\ retry.slept[2] = 1000

(***************************************************************************)
(* Properties of fetchWithRetry's error and of the pure pipeline stages.   *)
(***************************************************************************)
\* The attempts of the call that ended in a caught error (a 5xx response or
\* a rejected fetch), by their position in the console log.
CaughtAttempts == {k \in DOMAIN retry.logged : retry.logged[k] # "Rate limited"}

IdsOf(items) == [k \in DOMAIN items |-> items[k].id]

\* C12: category filter of normalize.  The output holds exactly the input
\* items that pass (no filter or an empty filter passes everything, otherwise
\* an item passes iff one of its category tags is in the filter), in input
\* order, nothing added; so its identifiers are among those of the output
\* without a filter for the same input.
C12_CategoryFilter ==
    stage.fn = "normalize" =>
        LET f == stage.filterCategories
            passing == {i \in DOMAIN stage.items :
                           \/ ~f.given
                           \/ f.list = <<>>
                           \/ Range(stage.items[i].category) \cap Range(f.list) # {}}
            unfiltered == normalize(stage.items, stage.timezone, NoFilter, stage.at)
        IN /\ Len(stage.out) = Cardinality(passing)
           /\ \A i \in passing :
                 LET k == Cardinality({j \in passing : j <= i})
                 IN /\ stage.out[k].source = stage.items[i].source
                    /\ stage.out[k].externalId = stage.items[i].externalId
                    /\ stage.out[k].title = stage.items[i].title
                    /\ stage.out[k].category = stage.items[i].category
                    /\ stage.out[k] = unfiltered[i]
           /\ Range(IdsOf(stage.out)) \subseteq Range(IdsOf(unfiltered))

\* C12 witness: a filter of two categories applied to five items drops the
\* attraction and keeps the other four in order, the exhibition by its
\* second tag and the seminar by its first.
C12_Witness ==
    /\ stage.fn = "normalize"
    /\ stage.filterCategories = Filter(<<"event", "tour">>)
    /\ stage.items = <<OpenTour, Exhibition, EventTalk, EventJazz, Attraction(1)>>
    /\ [k \in DOMAIN stage.out |-> stage.out[k].externalId] = <<"t1", "e3", "e2", "e1">>

\* C13: idempotent identifiers.  The identifier normalize gives an item
\* depends only on (source, externalId): any raw item with the source and
\* externalId of an item of the output gets that item's identifier, whatever
\* its other fields, the target timezone, the category filter and the time
\* of the call.
C13_IdempotentIdentifiers ==
    stage.fn = "normalize" =>
        \A k \in DOMAIN stage.out : \A raw \in StagePool :
            (raw.source = stage.out[k].source /\ raw.externalId = stage.out[k].externalId) =>
                \A timezone \in {"Europe/Rome", "UTC", "Mars/Phobos"} :
                \A filterCategories \in {NoFilter, Filter(raw.category)} :
                \A clock \in {0, DAY, 61 * DAY} :
                    LET again == normalize(<<raw>>, timezone, filterCategories, clock)
                    IN Len(again) = 1 /\ again[1].id = stage.out[k].id

\* C13 witness: one call normalized EventJazz and its renamed, otherwise
\* rated copy: two items that differ in title, normalized title and
\* popularity and carry one identifier, which no other pool item gets.
C13_Witness ==
    /\ stage.fn = "normalize"
    /\ stage.items = <<EventJazz, JazzRenamed>>
    /\ stage.timezone = "UTC"
    /\ stage.out[1].normalizedTitle # stage.out[2].normalizedTitle
    /\ stage.out[1].popularity # stage.out[2].popularity
    /\ stage.out[1].id = stage.out[2].id
    /\ normalize(<<EventTalk>>, "UTC", NoFilter, stage.at)[1].id # stage.out[1].id

\* C14: normalized title shape.  For every title, the normalized title made
\* by normalize is lowercase, has no leading or trailing whitespace, holds
\* no character that is neither a word character nor whitespace, and holds
\* no run of two or more whitespace characters.
C14_NormalizedTitleShape ==
    stage.fn = "normalize" =>
        \A k \in DOMAIN stage.out :
            LET t == stage.out[k].normalizedTitle
            IN /\ \A i \in DOMAIN t : t[i] \notin UpperSet
               /\ t # <<>> => ~IsSpace(t[1]) /\ ~IsSpace(t[Len(t)])
               /\ \A i \in DOMAIN t : IsWordChar(t[i]) \/ IsSpace(t[i])
               /\ \A i \in 1..(Len(t) - 1) : ~(IsSpace(t[i]) /\ IsSpace(t[i + 1]))

\* a is b with some elements left out.
RECURSIVE IsSubsequence(_, _)
IsSubsequence(a, b) ==
    IF a = <<>> THEN TRUE
    ELSE IF b = <<>> THEN FALSE
    ELSE IF Head(a) = Head(b) THEN IsSubsequence(Tail(a), Tail(b))
    ELSE IsSubsequence(a, Tail(b))

\* C15: dedup never increases the count and keeps first-seen order.  The
\* identifiers of dedupe's output are a subsequence of the identifiers of
\* its input: the output is never longer, and a representative keeps its
\* identifier and its position also when a later duplicate replaces it.
C15_DedupeSubsequence ==
    stage.fn = "dedupe" =>
        /\ Len(stage.out) <= Len(stage.items)
        /\ IsSubsequence(IdsOf(stage.out), IdsOf(stage.items))

\* C15 witness: the third of three items is a duplicate of the first and
\* replaces it (the output has its description and source) under the first
\* item's identifier and in the first position, before the second item.
C15_Witness ==
    /\ stage.fn = "dedupe"
    /\ Len(stage.items) = 3 /\ Len(stage.out) = 2
    /\ IdsOf(stage.out) = <<stage.items[1].id, stage.items[2].id>>
    /\ stage.items[3].id # stage.items[1].id
    /\ stage.out[1].source = stage.items[3].source
    /\ stage.out[1].description = "live music"
    /\ ~Has(stage.items[1], "description")

\* No two items of the list, at different positions and in either order,
\* satisfy the duplicate predicate.
PairwiseDistinct(items) ==
    \A i, j \in DOMAIN items : i # j => ~IsDuplicateOf(items[i], items[j])

\* C16: dedup preserves disjoint inputs.  If no two items of the input
\* satisfy the duplicate predicate pairwise, dedupe returns all the items
\* unchanged and in input order.
C16_DedupeDisjoint ==
    (stage.fn = "dedupe" /\ PairwiseDistinct(stage.items)) => stage.out = stage.items

\* C16 witness: dedupe returned unchanged a list holding the same untimed
\* attraction twice (equal titles and places, no start time, so no
\* duplicate), and next to it a list of two timed items with equal
\* normalized titles is not pairwise distinct.
C16_Witness ==
    /\ stage.fn = "dedupe"
    /\ Len(stage.items) = 2
    /\ stage.items[1] = stage.items[2]
    /\ ~Has(stage.items[1], "startTime")
    /\ PairwiseDistinct(stage.items)
    /\ stage.out = stage.items
    /\ ~PairwiseDistinct(normalize(<<EventJazz, MeetupJazz>>, "UTC", NoFilter, 0))

\* A ranked item without its score.
Unscored(item) == [f \in DOMAIN item \ {"score"} |-> item[f]]

\* C17: rank is an order-only operation.  For every input, strategy and
\* center, rank returns every input item exactly once (as many copies of an
\* item, and of an identifier, as the input holds; nothing dropped or added),
\* each with a score, sorted by score in non-increasing order.
C17_RankOrderOnly ==
    stage.fn = "rank" =>
        /\ Len(stage.out) = Len(stage.items)
        /\ \A k \in DOMAIN stage.out : Has(stage.out[k], "score")
        /\ \A x \in Range(stage.items) \cup {Unscored(stage.out[k]) : k \in DOMAIN stage.out} :
              Cardinality({k \in DOMAIN stage.items : stage.items[k] = x})
                  = Cardinality({k \in DOMAIN stage.out : Unscored(stage.out[k]) = x})
        /\ \A id \in Range(IdsOf(stage.items)) \cup Range(IdsOf(stage.out)) :
              Cardinality({k \in DOMAIN stage.items : stage.items[k].id = id})
                  = Cardinality({k \in DOMAIN stage.out : stage.out[k].id = id})
        /\ \A k \in 1..(Len(stage.out) - 1) :
              ~ScoreGreater(stage.out[k + 1].score, stage.out[k].score)

\* C17 witness: rank by price, with no center, reordered four items of which
\* two carry the same identifier, and two of the scores differ.
C17_Witness ==
    /\ stage.fn = "rank"
    /\ stage.sortBy = "price" /\ stage.center = <<>>
    /\ Len(stage.items) = 4
    /\ stage.items[1].id = stage.items[3].id
    /\ IdsOf(stage.out) # IdsOf(stage.items)
    /\ ScoreGreater(stage.out[1].score, stage.out[4].score)

\* C18: date-range filter predicate.  filterByDateRange retains an item iff
\* it has no start time and is tagged attraction, or it has a start time,
\* start <= window end and (end, or start when there is no end) >= window
\* start; an item with neither a start time nor the attraction tag is always
\* excluded, an untimed attraction is retained under every window, and the
\* retained items keep input order.
C18_DateRangePredicate ==
    stage.fn = "filterByDateRange" =>
        LET timed(i) == "startTime" \in DOMAIN stage.items[i]
            attraction(i) == \E c \in DOMAIN stage.items[i].category :
                                 stage.items[i].category[c] = "attraction"
            lastMinute(i) == IF "endTime" \in DOMAIN stage.items[i]
                             THEN stage.items[i].endTime.t
                             ELSE stage.items[i].startTime.t
            retained == {i \in DOMAIN stage.items :
                            \/ ~timed(i) /\ attraction(i)
                            \/ /\ timed(i)
                               /\ stage.items[i].startTime.t <= stage.endISO.t
                               /\ lastMinute(i) >= stage.startISO.t}
        IN /\ Len(stage.out) = Cardinality(retained)
           /\ \A i \in retained :
                 stage.out[Cardinality({j \in retained : j <= i})] = stage.items[i]
           /\ \A i \in DOMAIN stage.items :
                 /\ (~timed(i) /\ ~attraction(i)) => stage.items[i] \notin Range(stage.out)
                 /\ (~timed(i) /\ attraction(i)) => stage.items[i] \in Range(stage.out)

\* C18 witness: of five items, the window from minute 720 to day 3 keeps the
\* exhibition that began before it and ends in it, the event that ends at
\* minute 720 exactly, and the untimed attraction, in that order; the untimed
\* tour and the event of day 61 are left out.
C18_Witness ==
    /\ stage.fn = "filterByDateRange"
    /\ stage.startISO.t = 720 /\ stage.endISO.t = 3 * DAY
    /\ [k \in DOMAIN stage.items |-> stage.items[k].externalId] = <<"t1", "e3", "e2", "e1", "x1">>
    /\ [k \in DOMAIN stage.out |-> stage.out[k].externalId] = <<"e3", "e1", "x1">>
    /\ stage.out[2].endTime.t = 720

C20_SoonestOrdering ==
    (stage.fn = "rank" /\ stage.sortBy = "soonest") =>
        \A i, j \in DOMAIN stage.out :
            LET a == stage.out[i]
                b == stage.out[j]
            IN /\ (/\ Has(a, "startTime") /\ Has(b, "startTime")
                   /\ a.startTime.t < b.startTime.t)
                  => ~ScoreGreater(b.score, a.score)
               /\ ~Has(a, "startTime") => a.score = Pts(0)
               /\ (~Has(a, "startTime") /\ Has(b, "startTime"))
                  => ~ScoreGreater(a.score, b.score)

(***************************************************************************)
(* Properties of the geocoding cache, of the retry loop's attempts, of     *)
(* dedupe's merge and of overlapping fetchWithCache calls.                 *)
(***************************************************************************)
\* C21: geocoding cache.  After geocodeCity has resolved a city (through
\* Nominatim or through the fallback geocoder), every later geocodeCity call
\* within the 1-hour TTL whose input equals that city ignoring letter case
\* returns the same result without a network call.  Here: the request that
\* follows a successful response, less than the TTL after the start, asks
\* no geocoder about that response's city.
C21_GeocodeCacheHit ==
    [][\A h \in Handlers :
          (/\ sent.status = 200
           /\ now < GEO_CACHE_TTL
           /\ pc[h] = "idle" /\ pc'[h] # "idle"
           /\ toLowerCase(req'[h].city) = toLowerCase(sent.req.city))
          => /\ pc'[h] \notin {"nominatim", "google"}
             /\ geo'[h] = sent.geo]_vars

RepresentativesBefore == dedupe(SubSeq(stage.items, 1, Len(stage.items) - 1))

\* The last item of the list dedupe was given.
Incoming == stage.items[Len(stage.items)]

\* The duplicate predicate as the specification words it: a latitude and a
\* longitude count when they are carried, whatever their value.
DuplicateAnyCoordinates(item, uniqueItem) ==
    /\ timeSimilar(item, uniqueItem)
    /\ \/ SimilarityAbove(item.normalizedTitle, uniqueItem.normalizedTitle, 9, 10)
       \/ /\ SimilarityAbove(item.normalizedTitle, uniqueItem.normalizedTitle, 8, 10)
          /\ Has(item, "lat") /\ Has(item, "lng")
          /\ Has(uniqueItem, "lat") /\ Has(uniqueItem, "lng")
          /\ getDistance(item.lat, item.lng, uniqueItem.lat, uniqueItem.lng)
                < LocationWindowMetres

\* C23: duplicate predicate and first match.  An incoming item is a duplicate
\* of a representative exactly when both carry start times less than 30
\* minutes apart and either their normalized titles are more than 0.9 similar
\* or they are more than 0.8 similar and both carry a latitude and a
\* longitude (0 included) less than 200 m apart.  An item that is a duplicate
\* of no representative is appended; otherwise it is merged into the first
\* representative it is a duplicate of, and every other representative is
\* left as it was.
C23_FirstMatchMerge ==
    (stage.fn = "dedupe" /\ stage.items # <<>>) =>
        LET hits == {k \in DOMAIN RepresentativesBefore :
                        DuplicateAnyCoordinates(Incoming, RepresentativesBefore[k])}
        IN IF hits = {} THEN stage.out = Append(RepresentativesBefore, Incoming)
           ELSE /\ Len(stage.out) = Len(RepresentativesBefore)
                /\ \A k \in DOMAIN RepresentativesBefore :
                      (\E j \in hits : j < k) \/ k \notin hits
                         => stage.out[k] = RepresentativesBefore[k]

\* The incoming item with the identifier of the representative it replaces.
Replacement(item, uniqueItem) == Spread(item, [id |-> uniqueItem.id])

\* C24 as stated: on a duplicate match the incoming item replaces the
\* representative, keeping the representative's identifier, iff the
\* representative lacks a description and the incoming item has one, or the
\* representative lacks an image and the incoming item has one, or the
\* incoming item's popularity exceeds the representative's, or the
\* representative has no popularity; in every other case the representative
\* is left unchanged.
C24_ReplacedWhenUnrated ==
    (stage.fn = "dedupe" /\ stage.items # <<>>
        /\ FirstMatch(Incoming, RepresentativesBefore) # 0) =>
        LET k == FirstMatch(Incoming, RepresentativesBefore)
            uniqueItem == RepresentativesBefore[k]
            replaces ==
                \/ /\ ~Has(uniqueItem, "description") \/ uniqueItem.description = ""
                   /\ Has(Incoming, "description") /\ Incoming.description # ""
                \/ /\ ~Has(uniqueItem, "imageUrl") \/ uniqueItem.imageUrl = ""
                   /\ Has(Incoming, "imageUrl") /\ Incoming.imageUrl # ""
                \/ /\ Has(Incoming, "popularity") /\ Has(uniqueItem, "popularity")
                   /\ Incoming.popularity > uniqueItem.popularity
                \/ ~Has(uniqueItem, "popularity")
        IN stage.out[k] = IF replaces THEN Replacement(Incoming, uniqueItem)
                          ELSE uniqueItem

\* C24 as amended: on a duplicate match the incoming item replaces the
\* representative, keeping the representative's identifier, iff the
\* representative lacks a description (none or an empty one) and the incoming
\* item has a non-empty one, or the representative lacks an image and the
\* incoming item has one, or the incoming item has a non-zero popularity and
\* the representative has none, a zero one or a lower one; in every other
\* case the representative is left unchanged.
C24_ReplacementPolicy ==
    (stage.fn = "dedupe" /\ stage.items # <<>>
        /\ FirstMatch(Incoming, RepresentativesBefore) # 0) =>
        LET k == FirstMatch(Incoming, RepresentativesBefore)
            uniqueItem == RepresentativesBefore[k]
            replaces ==
                \/ /\ ~Has(uniqueItem, "description") \/ uniqueItem.description = ""
                   /\ Has(Incoming, "description") /\ Incoming.description # ""
                \/ /\ ~Has(uniqueItem, "imageUrl") \/ uniqueItem.imageUrl = ""
                   /\ Has(Incoming, "imageUrl") /\ Incoming.imageUrl # ""
                \/ /\ Has(Incoming, "popularity") /\ Incoming.popularity # 0
                   /\ \/ ~Has(uniqueItem, "popularity")
                      \/ uniqueItem.popularity = 0
                      \/ Incoming.popularity > uniqueItem.popularity
        IN stage.out[k] = IF replaces THEN Replacement(Incoming, uniqueItem)
                          ELSE uniqueItem

\* C24 witness: of two listings with neither description nor image, the
\* second, with a popularity, replaced the first, which has none, under the
\* first one's identifier; and dedupe leaves the first as it is when the
\* second has no popularity either.
C24_Witness ==
    /\ stage.fn = "dedupe"
    /\ Len(stage.items) = 2 /\ Len(stage.out) = 1
    /\ ~Has(stage.items[1], "popularity")
    /\ Has(stage.items[2], "popularity") /\ stage.items[2].popularity = 20
    /\ ~Has(stage.items[1], "description") /\ ~Has(stage.items[2], "description")
    /\ ~Has(stage.items[1], "imageUrl") /\ ~Has(stage.items[2], "imageUrl")
    /\ stage.out[1].externalId = stage.items[2].externalId
    /\ stage.out[1].externalId # stage.items[1].externalId
    /\ stage.out[1].id = stage.items[1].id
    /\ stage.out[1].popularity = 20
    /\ LET unrated == [f \in DOMAIN stage.items[2] \ {"popularity"} |-> stage.items[2][f]]
       IN dedupe(<<stage.items[1], unrated>>) = <<stage.items[1]>>

\* C25: a merge never loses information.  After dedupe merges an incoming
\* duplicate into a representative, the surviving representative has a
\* description if the representative had one before the merge, an image if
\* it had one before the merge, and a popularity not lower than before the
\* merge.
C25_MergeKeepsInformation ==
    (stage.fn = "dedupe" /\ stage.items # <<>>
        /\ FirstMatch(Incoming, RepresentativesBefore) # 0) =>
        LET k == FirstMatch(Incoming, RepresentativesBefore)
            before == RepresentativesBefore[k]
            after == stage.out[k]
        IN /\ TruthyStr(before, "description") => TruthyStr(after, "description")
           /\ TruthyStr(before, "imageUrl") => TruthyStr(after, "imageUrl")
           /\ Has(before, "popularity") =>
                 Has(after, "popularity") /\ after.popularity >= before.popularity

\* C26: dedup output is duplicate-free.  For every input, no two items of
\* dedupe's output satisfy the duplicate predicate with each other, and
\* dedupe applied to its own output returns it unchanged, also after a
\* representative has been replaced by the content of a later duplicate.
C26_OutputDuplicateFree ==
    stage.fn = "dedupe" =>
        /\ PairwiseDistinct(stage.out)
        /\ dedupe(stage.out) = stage.out

(* Properties of overlapping fetchWithCache calls and of failed fetches. *)
\* What the fetcher of provider p can return for the request of handler h.
FetcherReturns(h, p) ==
    {r.items : r \in {x \in {Fetcher(fetcherKind, p, net, ProviderParams(req[h], geo[h])) :
                                net \in NetOutcomes(p)} : x.ok}}

\* The fetcher of the call of handler h to provider p settles in this step.
Settles(h, p) ==
    /\ pc[h] = "fetching" /\ calls[h][p].st = "running"
    /\ CallAfter(h, p).st \in {"fulfilled", "rejected"}

\* C27: the cache race is benign.  Under every interleaving of overlapping
\* fetchWithCache calls with the same key, a call that is fulfilled after its
\* fetcher settled returns either the whole result of that fetcher
\* invocation, which is then also the whole data of the cache entry for the
\* key, or the whole data of the cache entry it read; a call answered without
\* a fetch returns the whole data of the entry; the cache changes only when a
\* fetcher settles, only at that call's key, and a rejected call leaves it
\* alone.
C27_CacheRaceBenign ==
    [][/\ \A h \in Handlers : \A p \in ProviderNames :
            Settles(h, p) =>
               LET call == calls[h][p]
                   after == CallAfter(h, p)
               IN /\ after.st = "rejected" => providerCache' = providerCache
                  /\ after.st = "fulfilled" =>
                        \/ /\ after.value \in FetcherReturns(h, p)
                           /\ DOMAIN providerCache' = DOMAIN providerCache \cup {call.key}
                           /\ providerCache'[call.key].data = after.value
                           /\ \A k \in DOMAIN providerCache \ {call.key} :
                                 providerCache'[k] = providerCache[k]
                        \/ /\ call.cached.has /\ after.value = call.cached.data
                           /\ providerCache' = providerCache
       /\ \A h \in Handlers :
            FansOut(h) =>
               \A p \in Range(EnabledProviders(apiKeys)) :
                  LET key == CacheKey(p, ProviderParams(ReqAfter(h), GeoAfter(h)))
                  IN CallAfter(h, p).st = "fulfilled" =>
                        /\ key \in DOMAIN providerCache
                        /\ CallAfter(h, p).value = providerCache[key].data
       /\ providerCache' # providerCache =>
             \E h \in Handlers : \E p \in ProviderNames : Settles(h, p)]_vars

\* C27 witness: one handler has just answered with the short listing its
\* fetcher returned, the cache entry holds that listing, and the other
\* handler's fetcher for the same key, begun when the cache had no entry, is
\* still running: the fetcher runs a second time.
C27_Witness ==
    /\ sent.status = 200
    /\ sent.settled["Eventbrite"].st = "fulfilled" /\ sent.settled["Eventbrite"].net = "ok"
    /\ sent.settled["Eventbrite"].value = <<EventTalk>>
    /\ \E h \in Handlers \ {sent.handler} :
          /\ pc[h] = "fetching"
          /\ calls[h]["Eventbrite"].st = "running"
          /\ ~calls[h]["Eventbrite"].cached.has
          /\ calls[h]["Eventbrite"].key \in DOMAIN providerCache
          /\ providerCache[calls[h]["Eventbrite"].key].data = <<EventTalk>>

\* C28: stale lookup under overlap.  When the fetcher of a call throws,
\* whether the failure propagates is decided by the cache content at the
\* time of the failure: if the cache then holds an entry for the key, put
\* there by an overlapping call while this one was in flight or found at the
\* start, the call returns that entry's data; it raises only if the cache
\* holds none.
C28_StaleLookupAtFailure ==
    [][\A h \in Handlers : \A p \in ProviderNames :
          (/\ fetcherKind = "contract"
           /\ Settles(h, p)
           /\ CallAfter(h, p).net \in {"notok", "throw"})
          => IF calls[h][p].key \in DOMAIN providerCache
             THEN /\ CallAfter(h, p).st = "fulfilled"
                  /\ CallAfter(h, p).value = providerCache[calls[h][p].key].data
             ELSE CallAfter(h, p).st = "rejected"]_vars

\* C29: a failed fetch does not touch the cache.  After a fetchItems call of
\* EventbriteProvider, MeetupProvider or OpenTripMapProvider whose network
\* request failed (transport error, timeout, 5xx after retries or a response
\* that is not ok), the provider cache is as it was before the fetcher
\* settled: the entry for the call's key has the same data and timestamp, or
\* is still absent.
C29_FailedFetchKeepsCache ==
    [][\A h \in Handlers : \A p \in ProviderNames :
          (/\ fetcherKind = "adapter"
           /\ Settles(h, p)
           /\ CallAfter(h, p).net \in {"notok", "throw"})
          => providerCache' = providerCache]_vars

(* Properties of the recommended score's temporal-urgency term. *)
\* The points the recommended score of a ranked item holds beyond its
\* popularity, attendee, recency, distance, completeness and category points.
UrgencyTerm(item) ==
    item.score.v - (PopularityPoints(item) + AttendeePoints(item)
                    + RecencyPoints(item, stage.at) + DistancePoints(item, stage.center)
                    + CompletenessPoints(item) + CategoryPoints(item))

\* C30: temporal urgency tiers.  In recommended scoring the temporal-urgency
\* term is +5 exactly for an item whose start is less than 1 day away from
\* the time of ranking, +3 for one whose start is less than 3 days away but
\* not less than 1, +1 for one whose start is less than 7 days away but not
\* less than 3, and 0 for every other item: one that starts 7 days or more
\* away, and one with no start time.
C30_UrgencyTiers ==
    (stage.fn = "rank" /\ stage.sortBy = "recommended") =>
        \A i \in DOMAIN stage.out :
            LET item == stage.out[i]
                away == Abs(getTime(item.startTime) - stage.at)
            IN UrgencyTerm(item) =
                  IF ~Has(item, "startTime") THEN 0
                  ELSE IF away < DAY THEN 5000
                  ELSE IF away < 3 * DAY THEN 3000
                  ELSE IF away < 7 * DAY THEN 1000
                  ELSE 0

====
